---- MODULE Spec2Model ----
(***************************************************************************)
(* A model of the esphome-client library: the plaintext and Noise frame    *)
(* codecs, the stream reader and writer, the Noise handshake, the message  *)
(* registry and the client facade (connect, connection setup, try_read,    *)
(* try_write, close).                                                      *)
(*                                                                         *)
(* Bytes are the integers 0..255, byte strings are sequences of bytes.     *)
(* Offsets into a byte string are 0-based as in the source; the element at *)
(* offset i of s is s[i + 1].                                              *)
(***************************************************************************)
EXTENDS Integers, Sequences, FiniteSets, TLC

(***************************************************************************)
(* Bounds of the model.                                                    *)
(***************************************************************************)
\* How many frames the server sends on one connection.
MaxServerFrames == 2
\* How many try_write calls the owner of the client makes once it is Ready.
MaxCallerWrites == 1
\* How many socket operations go wrong on one connection: fail with an I/O
\* error, or accept only a part of the bytes handed to them.
MaxFaults == 1
\* How many write handles (the client's own writer and the clones handed out
\* by write_stream) are used concurrently, and how many messages they send
\* in all.
MaxHandles == 2
MaxHandleWrites == 3
\* How long the bodies are that the frame codecs are run on by themselves
\* (besides the bodies at the steps of the length encoding), and how far from
\* its start and from its end a frame is cut where it is handed to a frame
\* reader in part.
MaxBodyLen == 2
MaxCut == 8
MaxStreamFrames == 2
MaxPayloadLen == 5

(***************************************************************************)
(* Program constants.                                                      *)
(***************************************************************************)
PLAIN_PREAMBLE == 0
NOISE_PREAMBLE == 1
ZERO_BYTE == 0
API_VERSION_MAJOR == 1
API_VERSION_MINOR == 12
U16_MODULUS == 65536

NOISE_HELLO == <<1, 0, 0>>

(***************************************************************************)
(* Byte-string helpers.                                                    *)
(***************************************************************************)
\* s[from..] with a 0-based offset, as the slice payload[4..] of the source.
SliceFrom(s, from) == SubSeq(s, from + 1, Len(s))

\* The first n bytes of s.
Take(s, n) == SubSeq(s, 1, n)

\* u16::to_be_bytes
to_be_bytes(v) == <<v \div 256, v % 256>>

\* u16::from_be_bytes
from_be_bytes(hi, lo) == hi * 256 + lo

RECURSIVE Pow2(_)
Pow2(n) == IF n = 0 THEN 1 ELSE 2 * Pow2(n - 1)

(***************************************************************************)
(* plain.rs: LEB128                                                        *)
(***************************************************************************)
RECURSIVE leb128_loop(_)
leb128_loop(value) ==
    IF value = 0 THEN <<>>
    ELSE LET temp == value % 128
             rest == value \div 128
         IN  <<IF rest # 0 THEN temp + 128 ELSE temp>> \o leb128_loop(rest)

\* convert_to_leb128 without its shortcut for one-byte values.
convert_to_leb128_loop_only(value) == leb128_loop(value)

convert_to_leb128(value) ==
    IF value <= 127 THEN <<value>> ELSE leb128_loop(value)

\* The result is [some |-> FALSE] for None and [some |-> TRUE, value, next]
\* for Some((value, next)); index and next are 0-based offsets.
RECURSIVE from_leb128_loop(_, _, _, _)
from_leb128_loop(payload, index, result, shift) ==
    IF index >= Len(payload) THEN [some |-> FALSE]
    ELSE LET byte == payload[index + 1]
             value == byte % 128
             result2 == result + ((value * Pow2(shift)) % U16_MODULUS)
         IN  IF byte < 128
             THEN [some |-> TRUE, value |-> result2, next |-> index + 1]
             ELSE IF shift + 7 >= 16
                  THEN [some |-> FALSE]
                  ELSE from_leb128_loop(payload, index + 1, result2, shift + 7)

convert_from_leb128(payload, start_pos) ==
    from_leb128_loop(payload, start_pos, 0, 0)

(***************************************************************************)
(* plain.rs: the plaintext frame codec.  A codec result is a record        *)
(*   [kind |-> "ok", frame]   for Ok(bytes) of an encoder,                 *)
(*   [kind |-> "some", frame, rest]  for Ok(Some(frame)) of a decoder,     *)
(*   [kind |-> "none", rest]  for Ok(None),                                *)
(*   [kind |-> "err", err, rest]  for Err(err),                            *)
(*   [kind |-> "panic"]  where the code panics;                            *)
(* rest is the buffer the decoder leaves behind.                           *)
(***************************************************************************)
\* create_frame leaving the four bytes of the header in front of the body.
create_frame_header_kept(payload) ==
    IF Len(payload) < 4
    THEN [kind |-> "err", err |-> "InvalidFrame",
          reason |-> "Payload must be at least 4 bytes long"]
    ELSE LET type_id == from_be_bytes(payload[1], payload[2])
             frame_len == from_be_bytes(payload[3], payload[4])
         IN  [kind |-> "ok",
              frame |-> <<PLAIN_PREAMBLE>> \o convert_to_leb128(frame_len)
                        \o convert_to_leb128(type_id) \o payload]

\* create_frame writing the type id in front of the length.
create_frame_type_first(payload) ==
    IF Len(payload) < 4
    THEN [kind |-> "err", err |-> "InvalidFrame",
          reason |-> "Payload must be at least 4 bytes long"]
    ELSE LET type_id == from_be_bytes(payload[1], payload[2])
             frame_len == from_be_bytes(payload[3], payload[4])
         IN  [kind |-> "ok",
              frame |-> <<PLAIN_PREAMBLE>> \o convert_to_leb128(type_id)
                        \o convert_to_leb128(frame_len) \o SliceFrom(payload, 4)]

create_frame(payload) ==
    IF Len(payload) < 4
    THEN [kind |-> "err", err |-> "InvalidFrame",
          reason |-> "Payload must be at least 4 bytes long"]
    ELSE LET type_id == from_be_bytes(payload[1], payload[2])
             frame_len == from_be_bytes(payload[3], payload[4])
         IN  [kind |-> "ok",
              frame |-> <<PLAIN_PREAMBLE>> \o convert_to_leb128(frame_len)
                        \o convert_to_leb128(type_id) \o SliceFrom(payload, 4)]

\* read_frame_from_buffer taking the body as far as it has arrived.
plain_read_frame_from_buffer_body_unchecked(buffer) ==
    IF Len(buffer) < 3 THEN [kind |-> "none", rest |-> buffer]
    ELSE IF buffer[1] = NOISE_PREAMBLE
    THEN [kind |-> "err", err |-> "UnexpectedEncryption", rest |-> buffer]
    ELSE IF buffer[1] # PLAIN_PREAMBLE
    THEN [kind |-> "err", err |-> "InvalidFrame", rest |-> buffer]
    ELSE LET l == convert_from_leb128(buffer, 1)
         IN  IF ~l.some THEN [kind |-> "none", rest |-> buffer]
             ELSE LET t == convert_from_leb128(buffer, l.next)
                  IN  IF ~t.some THEN [kind |-> "none", rest |-> buffer]
                      ELSE IF Len(buffer) < t.next + l.value
                      THEN [kind |-> "some",
                            frame |-> to_be_bytes(t.value) \o to_be_bytes(l.value)
                                      \o SliceFrom(buffer, t.next),
                            rest |-> <<>>]
                      ELSE [kind |-> "some",
                            frame |-> to_be_bytes(t.value) \o to_be_bytes(l.value)
                                      \o SubSeq(buffer, t.next + 1, t.next + l.value),
                            rest |-> SliceFrom(buffer, t.next + l.value)]

plain_read_frame_from_buffer(buffer) ==
    IF Len(buffer) < 3 THEN [kind |-> "none", rest |-> buffer]
    ELSE IF buffer[1] = NOISE_PREAMBLE
    THEN [kind |-> "err", err |-> "UnexpectedEncryption", rest |-> buffer]
    ELSE IF buffer[1] # PLAIN_PREAMBLE
    THEN [kind |-> "err", err |-> "InvalidFrame", rest |-> buffer]
    ELSE LET l == convert_from_leb128(buffer, 1)
         IN  IF ~l.some THEN [kind |-> "none", rest |-> buffer]
             ELSE LET t == convert_from_leb128(buffer, l.next)
                  IN  IF ~t.some THEN [kind |-> "none", rest |-> buffer]
                      ELSE IF Len(buffer) < t.next + l.value
                      THEN [kind |-> "none", rest |-> buffer]
                      ELSE [kind |-> "some",
                            frame |-> to_be_bytes(t.value) \o to_be_bytes(l.value)
                                      \o SubSeq(buffer, t.next + 1, t.next + l.value),
                            rest |-> SliceFrom(buffer, t.next + l.value)]

(***************************************************************************)
(* noise.rs: the outer Noise envelope.                                     *)
(***************************************************************************)
\* create_noise_frame writing the length low byte first.
create_noise_frame_little_endian(payload) ==
    <<NOISE_PREAMBLE, Len(payload) % 256, Len(payload) \div 256>> \o payload

create_noise_frame(payload) ==
    <<NOISE_PREAMBLE>> \o to_be_bytes(Len(payload)) \o payload

\* read_frame_from_buffer of noise.rs with one error for every foreign
\* first byte.
noise_read_frame_from_buffer_plain_unnamed(buffer) ==
    IF Len(buffer) < 3 THEN [kind |-> "none", rest |-> buffer]
    ELSE IF buffer[1] # NOISE_PREAMBLE
    THEN [kind |-> "err", err |-> "InvalidFrame", rest |-> buffer]
    ELSE LET frame_len == from_be_bytes(buffer[2], buffer[3])
         IN  IF Len(buffer) < frame_len
             THEN [kind |-> "none", rest |-> buffer]
             ELSE IF Len(buffer) < frame_len + 3
             THEN [kind |-> "panic"]
             ELSE [kind |-> "some",
                   frame |-> SubSeq(buffer, 4, frame_len + 3),
                   rest |-> SliceFrom(buffer, frame_len + 3)]

\* buffer.drain(..frame_len + 3) panics when the range ends past the buffer.
noise_read_frame_from_buffer(buffer) ==
    IF Len(buffer) < 3 THEN [kind |-> "none", rest |-> buffer]
    ELSE IF buffer[1] = PLAIN_PREAMBLE
    THEN [kind |-> "err", err |-> "UnexpectedPlain", rest |-> buffer]
    ELSE IF buffer[1] # NOISE_PREAMBLE
    THEN [kind |-> "err", err |-> "InvalidFrame", rest |-> buffer]
    ELSE LET frame_len == from_be_bytes(buffer[2], buffer[3])
         IN  IF Len(buffer) < frame_len
             THEN [kind |-> "none", rest |-> buffer]
             ELSE IF Len(buffer) < frame_len + 3
             THEN [kind |-> "panic"]
             ELSE [kind |-> "some",
                   frame |-> SubSeq(buffer, 4, frame_len + 3),
                   rest |-> SliceFrom(buffer, frame_len + 3)]

(***************************************************************************)
(* The message registry generated by build.rs.  A message is a record with *)
(* a field variant and the fields of that variant.  The schema (api.proto) *)
(* lists about a hundred variants; the model keeps the ones the client     *)
(* itself sends or inspects.                                               *)
(***************************************************************************)
Variants == {"HelloRequest", "HelloResponse", "ConnectRequest", "ConnectResponse",
             "DisconnectRequest", "PingRequest", "PingResponse"}

get_message_type(variant) ==
    CASE variant = "HelloRequest" -> 1
      [] variant = "HelloResponse" -> 2
      [] variant = "ConnectRequest" -> 3
      [] variant = "ConnectResponse" -> 4
      [] variant = "DisconnectRequest" -> 5
      [] variant = "PingRequest" -> 7
      [] variant = "PingResponse" -> 8

\* The field encoding (prost): a body is a list of items, each a tag byte
\* (field number * 8 + wire type) followed by a one-byte varint (wire type 0)
\* or by a length byte and that many bytes (wire type 2).  Fields holding the
\* default value (0, false, the empty string) are not written.
VarintField(num, v) == IF v = 0 THEN <<>> ELSE <<num * 8, v>>
StringField(num, str) == IF str = <<>> THEN <<>> ELSE <<num * 8 + 2, Len(str)>> \o str

encode_to_vec(msg) ==
    CASE msg.variant = "HelloRequest" ->
            StringField(1, msg.client_info)
            \o VarintField(2, msg.api_version_major)
            \o VarintField(3, msg.api_version_minor)
      [] msg.variant = "HelloResponse" ->
            VarintField(1, msg.api_version_major)
            \o VarintField(2, msg.api_version_minor)
      [] msg.variant = "ConnectRequest" -> StringField(1, msg.password)
      [] msg.variant = "ConnectResponse" ->
            VarintField(1, IF msg.invalid_password THEN 1 ELSE 0)
      [] OTHER -> <<>>

\* The length in bytes of the item that starts body, 0 when it is malformed.
ItemLen(body) ==
    IF Len(body) < 2 THEN 0
    ELSE IF body[1] % 8 = 0 THEN (IF body[2] < 128 THEN 2 ELSE 0)
    ELSE IF body[1] % 8 = 2 THEN (IF Len(body) >= 2 + body[2] THEN 2 + body[2] ELSE 0)
    ELSE 0

RECURSIVE WellFormedBody(_)
WellFormedBody(body) ==
    \/ body = <<>>
    \/ /\ ItemLen(body) > 0
       /\ WellFormedBody(SliceFrom(body, ItemLen(body)))

\* The value of the field with this tag, the last occurrence winning.
RECURSIVE FieldValue(_, _, _)
FieldValue(body, tag, default) ==
    IF body = <<>> THEN default
    ELSE LET here == IF body[1] # tag THEN default
                     ELSE IF tag % 8 = 0 THEN body[2]
                     ELSE SubSeq(body, 3, 2 + body[2])
         IN  FieldValue(SliceFrom(body, ItemLen(body)), tag, here)

\* Message::decode of one variant; [ok |-> FALSE] is a prost DecodeError.
message_decode(variant, body) ==
    IF ~WellFormedBody(body) THEN [ok |-> FALSE]
    ELSE CASE variant = "HelloRequest" ->
                [ok |-> TRUE,
                 msg |-> [variant |-> variant,
                          client_info |-> FieldValue(body, 10, <<>>),
                          api_version_major |-> FieldValue(body, 16, 0),
                          api_version_minor |-> FieldValue(body, 24, 0)]]
           [] variant = "HelloResponse" ->
                [ok |-> TRUE,
                 msg |-> [variant |-> variant,
                          api_version_major |-> FieldValue(body, 8, 0),
                          api_version_minor |-> FieldValue(body, 16, 0)]]
           [] variant = "ConnectRequest" ->
                [ok |-> TRUE,
                 msg |-> [variant |-> variant, password |-> FieldValue(body, 10, <<>>)]]
           [] variant = "ConnectResponse" ->
                [ok |-> TRUE,
                 msg |-> [variant |-> variant,
                          invalid_password |-> FieldValue(body, 8, 0) # 0]]
           [] OTHER -> [ok |-> TRUE, msg |-> [variant |-> variant]]

\* impl From<EspHomeMessage> for Vec<u8>
message_into_bytes(msg) ==
    LET payload == encode_to_vec(msg)
    IN  to_be_bytes(get_message_type(msg.variant)) \o to_be_bytes(Len(payload)) \o payload

\* A decoder that holds the inner length against the length of the body.
message_try_from_length_checked(msg) ==
    IF Len(msg) < 4 THEN [ok |-> FALSE, err |-> "Message too short"]
    ELSE IF from_be_bytes(msg[3], msg[4]) # Len(msg) - 4
    THEN [ok |-> FALSE, err |-> "Failed to decode message"]
    ELSE LET type_id == from_be_bytes(msg[1], msg[2])
             known == {v \in Variants : get_message_type(v) = type_id}
         IN  IF known = {} THEN [ok |-> FALSE, err |-> "Unknown message type"]
             ELSE LET d == message_decode(CHOOSE v \in known : TRUE, SliceFrom(msg, 4))
                  IN  IF d.ok THEN d ELSE [ok |-> FALSE, err |-> "Failed to decode message"]

\* impl TryFrom<Vec<u8>> for EspHomeMessage
message_try_from(msg) ==
    IF Len(msg) < 4 THEN [ok |-> FALSE, err |-> "Message too short"]
    ELSE LET type_id == from_be_bytes(msg[1], msg[2])
             known == {v \in Variants : get_message_type(v) = type_id}
         IN  IF known = {} THEN [ok |-> FALSE, err |-> "Unknown message type"]
             ELSE LET d == message_decode(CHOOSE v \in known : TRUE, SliceFrom(msg, 4))
                  IN  IF d.ok THEN d ELSE [ok |-> FALSE, err |-> "Failed to decode message"]

(***************************************************************************)
(* The Noise session (the snow library), abstracted.  The initiator and    *)
(* responder handshake messages are fixed byte strings; a transport        *)
(* ciphertext is the plaintext behind the nonce it was encrypted under,    *)
(* which stands for the authentication tag that binds it to that nonce.    *)
(***************************************************************************)
InitiatorMessage == <<105>>
ResponderMessage == <<114>>

\* TransportState::write_message at send nonce n
noise_encrypt(n, payload) == <<n>> \o payload

\* TransportState::read_message at receive nonce n
noise_decrypt(n, ciphertext) ==
    IF Len(ciphertext) >= 1 /\ ciphertext[1] = n
    THEN [ok |-> TRUE, payload |-> Tail(ciphertext)]
    ELSE [ok |-> FALSE]

\* HandshakeState::read_message of the responder message
handshake_read_message(state, message) ==
    state = "sent_e" /\ message = ResponderMessage

noise_hello == NOISE_HELLO

noise_handshake == create_noise_frame(<<ZERO_BYTE>> \o InitiatorMessage)

\* The bytes of s before its first zero byte, and whether there is one.
RECURSIVE UntilZero(_)
UntilZero(s) ==
    IF s = <<>> THEN [found |-> FALSE, str |-> <<>>, rest |-> <<>>]
    ELSE IF s[1] = ZERO_BYTE THEN [found |-> TRUE, str |-> <<>>, rest |-> Tail(s)]
    ELSE LET r == UntilZero(Tail(s))
         IN  [r EXCEPT !.str = <<s[1]>> \o r.str]

\* Results.  The value of an Ok is a record: a message, Unit or the client.
Ok(v) == [ok |-> TRUE, val |-> v]
Err(e, why) == [ok |-> FALSE, err |-> e, reason |-> why]
Unit == [unit |-> TRUE]

\* ClientError::Timeout { timeout_ms }
TimeoutErr(ms) == [ok |-> FALSE, err |-> "Timeout", reason |-> "", timeout_ms |-> ms]

\* A Duration is whole seconds and the nanoseconds of the second begun.
\* Duration::as_millis taking the whole seconds alone.
as_millis_whole_seconds(d) == d.secs * 1000

\* Duration::as_millis
as_millis(d) == d.secs * 1000 + d.nanos \div 1000000

Option(found, str) == IF found THEN [some |-> TRUE, str |-> str] ELSE [some |-> FALSE]

parse_server_and_mac(data) ==
    IF data = <<>> \/ data[1] # NOISE_PREAMBLE
    THEN Err("UnexpectedPlain", "")
    ELSE LET name == UntilZero(Tail(data))
             mac == UntilZero(name.rest)
         IN  Ok([server_name |-> Option(name.found, name.str),
                 mac_address |-> Option(mac.found, mac.str)])

\* String::from_utf8: whether the bytes are well-formed UTF-8.
RECURSIVE from_utf8_ok(_)
from_utf8_ok(b) ==
    LET Cont(i) == Len(b) >= i /\ b[i] >= 128 /\ b[i] <= 191
    IN  IF b = <<>> THEN TRUE
        ELSE IF b[1] <= 127 THEN from_utf8_ok(Tail(b))
        ELSE IF b[1] >= 194 /\ b[1] <= 223
        THEN Cont(2) /\ from_utf8_ok(SliceFrom(b, 2))
        ELSE IF b[1] >= 224 /\ b[1] <= 239
        THEN /\ Cont(2) /\ Cont(3)
             /\ b[1] = 224 => b[2] >= 160
             /\ b[1] = 237 => b[2] <= 159
             /\ from_utf8_ok(SliceFrom(b, 3))
        ELSE IF b[1] >= 240 /\ b[1] <= 244
        THEN /\ Cont(2) /\ Cont(3) /\ Cont(4)
             /\ b[1] = 240 => b[2] >= 144
             /\ b[1] = 244 => b[2] <= 143
             /\ from_utf8_ok(SliceFrom(b, 4))
        ELSE FALSE

\* The text behind a wrong opening byte: the bytes as a string when there are
\* at least two of them and they are UTF-8.
RefusalReason(rest) ==
    IF Len(rest) >= 2
    THEN IF from_utf8_ok(rest) THEN [kind |-> "text", str |-> rest]
         ELSE [kind |-> "Reason not decodable"]
    ELSE [kind |-> "Unknown reason"]

\* From<NoiseError> for ClientError
NoiseErrorIntoClientError(reason) == Err("NoiseHandshake", reason)

\* The reason of the error for a wrong opening byte is "Incorrect preamble"
\* with the text of RefusalReason.
parse_noise_response(data, state) ==
    IF data = <<>> \/ data[1] # ZERO_BYTE
    THEN [ok |-> FALSE, err |-> "NoiseHandshake", reason |-> "Incorrect preamble",
          text |-> RefusalReason(IF data = <<>> THEN <<>> ELSE Tail(data))]
    ELSE IF handshake_read_message(state, Tail(data))
         THEN Ok(Unit)
         ELSE NoiseErrorIntoClientError("Noise transport error")

(***************************************************************************)
(* noise.rs: create_noise_client.  A key is a string, here a sequence of   *)
(* one-character strings.  general_purpose::STANDARD.decode is the base64  *)
(* crate's decoder with the standard alphabet, canonical padding required  *)
(* and non-zero trailing bits rejected.                                    *)
(***************************************************************************)
Base64Alphabet ==
    <<"A", "B", "C", "D", "E", "F", "G", "H", "I", "J", "K", "L", "M",
      "N", "O", "P", "Q", "R", "S", "T", "U", "V", "W", "X", "Y", "Z",
      "a", "b", "c", "d", "e", "f", "g", "h", "i", "j", "k", "l", "m",
      "n", "o", "p", "q", "r", "s", "t", "u", "v", "w", "x", "y", "z",
      "0", "1", "2", "3", "4", "5", "6", "7", "8", "9", "+", "/">>

\* The six bits of a symbol of the alphabet; the padding sign counts as zero
\* bits inside the last group.
SymbolValue(c) ==
    IF c = "=" THEN 0
    ELSE (CHOOSE i \in DOMAIN Base64Alphabet : Base64Alphabet[i] = c) - 1

\* How many padding signs end str.
RECURSIVE TrailingPad(_)
TrailingPad(str) ==
    IF str # <<>> /\ str[Len(str)] = "=" THEN 1 + TrailingPad(Take(str, Len(str) - 1))
    ELSE 0

\* The three bytes of each group of four symbols.
RECURSIVE GroupBytes(_)
GroupBytes(str) ==
    IF Len(str) < 4 THEN <<>>
    ELSE LET n == SymbolValue(str[1]) * 262144 + SymbolValue(str[2]) * 4096
                  + SymbolValue(str[3]) * 64 + SymbolValue(str[4])
         IN  <<n \div 65536, (n \div 256) % 256, n % 256>> \o GroupBytes(SliceFrom(str, 4))

\* Engine::decode of STANDARD: [ok |-> TRUE, bytes] or [ok |-> FALSE, err].
base64_decode(str) ==
    LET pad == TrailingPad(str)
        symbols == Take(str, Len(str) - pad)
        bytes == GroupBytes(str)
    IN  IF \E i \in DOMAIN symbols :
               \A k \in DOMAIN Base64Alphabet : Base64Alphabet[k] # symbols[i]
        THEN [ok |-> FALSE, err |-> "InvalidByte"]
        ELSE IF Len(symbols) % 4 = 1
        THEN [ok |-> FALSE, err |-> "InvalidLength"]
        ELSE IF Len(str) % 4 # 0 \/ pad > 2
        THEN [ok |-> FALSE, err |-> "InvalidPadding"]
        ELSE IF pad > 0 /\ bytes[Len(bytes) - pad + 1] # 0
        THEN [ok |-> FALSE, err |-> "InvalidLastSymbol"]
        ELSE [ok |-> TRUE, bytes |-> Take(bytes, Len(bytes) - pad)]

\* create_noise_client accepting a key of any decoded length.
create_noise_client_length_unchecked(key) ==
    LET d == base64_decode(key)
    IN  IF ~d.ok THEN Err("InvalidKey", d.err)
        ELSE Ok([hs |-> "initiator"])

\* The snow initiator for the pre-shared key, or InvalidKey.
create_noise_client(key) ==
    LET d == base64_decode(key)
    IN  IF ~d.ok THEN Err("InvalidKey", d.err)
        ELSE IF Len(d.bytes) # 32 THEN Err("InvalidKey", "Invalid PSK length")
        ELSE Ok([hs |-> "initiator"])

\* The keys the builders are given, by name: the base64 of 32 bytes; of 30
\* and of 33 bytes; the empty string; a string with a sign outside the
\* alphabet; 32 bytes without the padding sign; and 32 bytes with bits set
\* behind the last byte.
Repeat(c, n) == [i \in 1..n |-> c]

KeyNames == {"valid", "short", "long", "empty", "not_base64", "unpadded", "trailing_bits"}

KeyString(name) ==
    CASE name = "valid" -> Repeat("A", 43) \o <<"=">>
      [] name = "short" -> Repeat("A", 40)
      [] name = "long" -> Repeat("A", 44)
      [] name = "empty" -> <<>>
      [] name = "not_base64" -> Repeat("A", 42) \o <<"!", "=">>
      [] name = "unpadded" -> Repeat("A", 43)
      [] name = "trailing_bits" -> Repeat("A", 42) \o <<"B", "=">>

(***************************************************************************)
(* The state.                                                              *)
(***************************************************************************)
VARIABLES
    cfg,        \* the builder: addr, key, password, timeout, connection_setup,
                \* handle_ping
    ctx,        \* where the owner of the client is: the phase of connect(), or
                \* the public call in progress, or "ready", "failed", "closed"
    step,       \* the await point inside ctx: "w" a write_message of the phase,
                \* "pong" the write of a PingResponse inside try_read, "d" about
                \* to enter read_next_message, "r" waiting for the socket to be
                \* readable inside read_next_message, "-" none
    pending,    \* the encoded bytes write_message is about to hand to the socket
    buffer,     \* StreamReader::buffer
    decoder,    \* StreamReader::decoder
    encoder,    \* StreamWriter::encoder
    hs,         \* the snow HandshakeState of noise::connect
    n_send,     \* send nonce of the transport session
    n_recv,     \* receive nonce of the transport session
    log,        \* history: socket writes, payloads read, results returned
    calls,      \* try_write calls the owner made
    io_errs,    \* socket operations that failed or wrote only a part
    net_in,     \* bytes the server sent that the client has not read yet
    srv_sent,   \* application and malformed frames the server sent
    srv_hs,     \* handshake frames the server sent
    srv_nonce,  \* send nonce of the server's transport session
    srv_log,    \* history: the frames the server sent, in order
    writers,    \* the write handles used concurrently: for each its place in
                \* write_message and the frame it holds
    unit        \* a codec function run by itself, as the unit tests of
                \* plain.rs and noise.rs run it: its input, the bytes made of
                \* it, the buffer handed to the frame reader and the result

vars == <<cfg, ctx, step, pending, buffer, decoder, encoder, hs, n_send, n_recv,
          log, calls, io_errs, net_in, srv_sent, srv_hs, srv_nonce, srv_log,
          writers, unit>>

\* No codec function is run by itself.
IdleUnit == [test |-> "none", stage |-> "-", value |-> 0, body |-> <<>>,
             frame |-> <<>>, buffer |-> <<>>, out |-> [kind |-> "-"],
             msg |-> [variant |-> "-"]]

\* The connection as one record: the client and its socket, and the server's
\* end of it.
Cur == [ctx |-> ctx, step |-> step, pending |-> pending, buffer |-> buffer,
        decoder |-> decoder, encoder |-> encoder, hs |-> hs,
        n_send |-> n_send, n_recv |-> n_recv, log |-> log,
        net_in |-> net_in, srv_sent |-> srv_sent, srv_hs |-> srv_hs,
        srv_nonce |-> srv_nonce]

WriteEvent(by, bytes, n) == [ev |-> "write", by |-> by, bytes |-> bytes, n |-> n]
ReadEvent(by, payload) == [ev |-> "read", by |-> by, payload |-> payload]
RetEvent(op, by, res) == [ev |-> "ret", op |-> op, by |-> by, res |-> res]

Logged(s, e) == [s EXCEPT !.log = Append(s.log, e)]

HandshakeCtx == {"n_hello", "n_hs", "n_info", "n_resp"}
SetupCtx == {"s_hello", "s_conn"}
CallCtx == {"try_read", "try_write", "close"}
EnvelopeCtx == {"tcp"} \cup HandshakeCtx

ClientInfo == <<99>>
Password == <<112>>

HelloRequest == [variant |-> "HelloRequest", client_info |-> ClientInfo,
                 api_version_major |-> API_VERSION_MAJOR,
                 api_version_minor |-> API_VERSION_MINOR]
ConnectRequest == [variant |-> "ConnectRequest",
                   password |-> IF cfg.password THEN Password ELSE <<>>]
PingResponse == [variant |-> "PingResponse"]
PingRequest == [variant |-> "PingRequest"]
DisconnectRequest == [variant |-> "DisconnectRequest"]
HelloResponse(major, minor) == [variant |-> "HelloResponse",
                                api_version_major |-> major,
                                api_version_minor |-> minor]
ConnectResponse(invalid) == [variant |-> "ConnectResponse", invalid_password |-> invalid]

Client == [client |-> TRUE]

(***************************************************************************)
(* The client's code as functions on the client record.  Each runs from    *)
(* one await point to the next.                                            *)
(***************************************************************************)
\* The reader and the last writer handle are dropped: the socket closes, what
\* it held unread is gone and the server's session ends.
Dropped(s, end) ==
    [s EXCEPT !.ctx = end, !.step = "-", !.pending = <<>>, !.buffer = <<>>,
              !.net_in = <<>>, !.srv_sent = 0, !.srv_hs = {}, !.srv_nonce = 0]

\* connect() returns Err: the streams are dropped.
ConnectFail(s, res) == Logged(Dropped(s, "failed"), RetEvent("connect", s.ctx, res))

\* connect() returns Ok(stream).
ConnectOk(s) ==
    Logged([s EXCEPT !.ctx = "ready", !.step = "-", !.pending = <<>>],
           RetEvent("connect", s.ctx, Ok(Client)))

\* A public call returns res and close() leaves the client as it was.
CallReturn_close_keeps_streams(s, res) ==
    Logged([s EXCEPT !.ctx = "ready", !.step = "-", !.pending = <<>>],
           RetEvent(s.ctx, s.ctx, res))

\* A public call of the Ready client returns res.
CallReturn(s, res) ==
    Logged(IF s.ctx = "close" THEN Dropped(s, "closed")
           ELSE [s EXCEPT !.ctx = "ready", !.step = "-", !.pending = <<>>],
           RetEvent(s.ctx, s.ctx, res))

\* The I/O in progress fails with res, and every caller up to the public call
\* hands it on with the ? operator.
IoFail(s, res) ==
    IF s.ctx \in HandshakeCtx THEN ConnectFail(s, res)
    ELSE IF s.ctx \in SetupCtx
    THEN IF s.step = "w" THEN ConnectFail(s, res)
         ELSE ConnectFail(Logged(s, RetEvent("try_read", s.ctx, res)), res)
    ELSE CallReturn(s, res)

\* StreamEncoder::encode with a NoiseCoder that encrypts on a copy of the
\* session: the send nonce of the session stays where it was.
encode_session_copied(s, payload) ==
    CASE s.encoder = "NoopEncoder" ->
            [kind |-> "ok", frame |-> payload, n_send |-> s.n_send]
      [] s.encoder = "PlainEncoder" ->
            LET f == create_frame(payload)
            IN  IF f.kind = "ok"
                THEN [kind |-> "ok", frame |-> f.frame, n_send |-> s.n_send]
                ELSE f
      [] s.encoder = "NoiseCoder" ->
            [kind |-> "ok",
             frame |-> create_noise_frame(noise_encrypt(s.n_send, payload)),
             n_send |-> s.n_send]

\* StreamEncoder::encode of the installed encoder.
encode(s, payload) ==
    CASE s.encoder = "NoopEncoder" ->
            [kind |-> "ok", frame |-> payload, n_send |-> s.n_send]
      [] s.encoder = "PlainEncoder" ->
            LET f == create_frame(payload)
            IN  IF f.kind = "ok"
                THEN [kind |-> "ok", frame |-> f.frame, n_send |-> s.n_send]
                ELSE f
      [] s.encoder = "NoiseCoder" ->
            [kind |-> "ok",
             frame |-> create_noise_frame(noise_encrypt(s.n_send, payload)),
             n_send |-> s.n_send + 1]

\* write_message up to its first wait for writability; s.ctx and s.step name
\* the write.
write_message(s, payload) ==
    LET e == encode(s, payload)
    IN  IF e.kind = "ok"
        THEN [s EXCEPT !.pending = e.frame, !.n_send = e.n_send]
        ELSE IoFail(s, Err(e.err, ""))

\* EspHomeClient::try_write, and EspHomeClientWriteStream::try_write
try_write(s, message) == write_message(s, message_into_bytes(message))

\* connection_setup from the ConnectRequest on.
SendConnectRequest(s) ==
    try_write([s EXCEPT !.ctx = "s_conn", !.step = "w"], ConnectRequest)

\* connection_setup comparing the minor version where it compares the major.
TryReadReturn_minor_checked(s, res) ==
    LET s1 == Logged(s, RetEvent("try_read", s.ctx, res))
    IN  IF s.ctx = "try_read" THEN CallReturn(s, res)
        ELSE IF ~res.ok THEN ConnectFail(s1, res)
        ELSE IF s.ctx = "s_hello"
        THEN IF res.val.variant = "HelloResponse"
             THEN IF res.val.api_version_minor # API_VERSION_MINOR
                  THEN ConnectFail(s1, Err("ProtocolMismatch", ""))
                  ELSE SendConnectRequest(s1)
             ELSE [s1 EXCEPT !.step = "d"]
        ELSE IF res.val.variant = "ConnectResponse"
             THEN IF res.val.invalid_password
                  THEN ConnectFail(s1, Err("Authentication", "Invalid password"))
                  ELSE ConnectOk(s1)
             ELSE [s1 EXCEPT !.step = "d"]

\* connection_setup accepting every ConnectResponse.
TryReadReturn_password_unchecked(s, res) ==
    LET s1 == Logged(s, RetEvent("try_read", s.ctx, res))
    IN  IF s.ctx = "try_read" THEN CallReturn(s, res)
        ELSE IF ~res.ok THEN ConnectFail(s1, res)
        ELSE IF s.ctx = "s_hello"
        THEN IF res.val.variant = "HelloResponse"
             THEN IF res.val.api_version_major # API_VERSION_MAJOR
                  THEN ConnectFail(s1, Err("ProtocolMismatch", ""))
                  ELSE SendConnectRequest(s1)
             ELSE [s1 EXCEPT !.step = "d"]
        ELSE IF res.val.variant = "ConnectResponse"
             THEN ConnectOk(s1)
             ELSE [s1 EXCEPT !.step = "d"]

\* connection_setup failing on a message it does not wait for.
TryReadReturn_other_variant_fails(s, res) ==
    LET s1 == Logged(s, RetEvent("try_read", s.ctx, res))
    IN  IF s.ctx = "try_read" THEN CallReturn(s, res)
        ELSE IF ~res.ok THEN ConnectFail(s1, res)
        ELSE IF s.ctx = "s_hello"
        THEN IF res.val.variant = "HelloResponse"
             THEN IF res.val.api_version_major # API_VERSION_MAJOR
                  THEN ConnectFail(s1, Err("ProtocolMismatch", ""))
                  ELSE SendConnectRequest(s1)
             ELSE ConnectFail(s1, Err("ValidationFailed", ""))
        ELSE IF res.val.variant = "ConnectResponse"
             THEN IF res.val.invalid_password
                  THEN ConnectFail(s1, Err("Authentication", "Invalid password"))
                  ELSE ConnectOk(s1)
             ELSE ConnectFail(s1, Err("ValidationFailed", ""))

\* try_read returns res to its caller: the owner of the client, or one of the
\* two loops of connection_setup.
TryReadReturn(s, res) ==
    LET s1 == Logged(s, RetEvent("try_read", s.ctx, res))
    IN  IF s.ctx = "try_read" THEN CallReturn(s, res)
        ELSE IF ~res.ok THEN ConnectFail(s1, res)
        ELSE IF s.ctx = "s_hello"
        THEN IF res.val.variant = "HelloResponse"
             THEN IF res.val.api_version_major # API_VERSION_MAJOR
                  THEN ConnectFail(s1, Err("ProtocolMismatch", ""))
                  ELSE SendConnectRequest(s1)
             ELSE [s1 EXCEPT !.step = "d"]
        ELSE IF res.val.variant = "ConnectResponse"
             THEN IF res.val.invalid_password
                  THEN ConnectFail(s1, Err("Authentication", "Invalid password"))
                  ELSE ConnectOk(s1)
             ELSE [s1 EXCEPT !.step = "d"]

\* try_read without its keep-alive arm: a PingRequest is returned as it came.
try_read_payload_ping_returned(s, payload) ==
    LET m == message_try_from(payload)
    IN  IF ~m.ok THEN TryReadReturn(s, Err("ValidationFailed", m.err))
        ELSE TryReadReturn(s, Ok(m.msg))

\* try_read going on to the next frame when a payload is no message.
try_read_payload_invalid_skipped(s, payload) ==
    LET m == message_try_from(payload)
    IN  IF ~m.ok THEN [s EXCEPT !.step = "d"]
        ELSE IF m.msg.variant = "PingRequest" /\ cfg.handle_ping
        THEN try_write([s EXCEPT !.step = "pong"], PingResponse)
        ELSE TryReadReturn(s, Ok(m.msg))

\* try_read answering every PingRequest, whatever handle_ping says.
try_read_payload_ping_always(s, payload) ==
    LET m == message_try_from(payload)
    IN  IF ~m.ok THEN TryReadReturn(s, Err("ValidationFailed", m.err))
        ELSE IF m.msg.variant = "PingRequest"
        THEN try_write([s EXCEPT !.step = "pong"], PingResponse)
        ELSE TryReadReturn(s, Ok(m.msg))

\* The body of the loop of try_read behind read_next_message.
try_read_payload(s, payload) ==
    LET m == message_try_from(payload)
    IN  IF ~m.ok THEN TryReadReturn(s, Err("ValidationFailed", m.err))
        ELSE IF m.msg.variant = "PingRequest" /\ cfg.handle_ping
        THEN try_write([s EXCEPT !.step = "pong"], PingResponse)
        ELSE TryReadReturn(s, Ok(m.msg))

\* connect() opening the setup with the ConnectRequest.
AfterEnvelope_connect_first(s) ==
    IF cfg.connection_setup
    THEN try_write([s EXCEPT !.ctx = "s_conn", !.step = "w"], ConnectRequest)
    ELSE ConnectOk(s)

\* connect() running the connection setup whatever the builder says.
AfterEnvelope_setup_always(s) ==
    try_write([s EXCEPT !.ctx = "s_hello", !.step = "w"], HelloRequest)

\* connect() behind the envelope: the optional connection setup.
AfterEnvelope(s) ==
    IF cfg.connection_setup
    THEN try_write([s EXCEPT !.ctx = "s_hello", !.step = "w"], HelloRequest)
    ELSE ConnectOk(s)

\* plain::connect putting the plaintext codec on the reader alone.
plain_connect_reader_only(s) == [s EXCEPT !.decoder = "PlainDecoder"]

\* plain::connect behind the TCP connect: the plaintext codec on both halves.
plain_connect(s) == [s EXCEPT !.decoder = "PlainDecoder", !.encoder = "PlainEncoder"]

\* noise::connect going to transport mode behind the server identity frame.
handshake_payload_identity_only(s, payload) ==
    LET r == parse_server_and_mac(payload)
    IN  IF r.ok
        THEN AfterEnvelope([s EXCEPT !.hs = "transport",
                                     !.decoder = "NoiseCoder",
                                     !.encoder = "NoiseCoder"])
        ELSE ConnectFail(s, r)

\* noise::connect putting the transport decoder on a reader made anew, with
\* an empty buffer.
handshake_payload_buffer_dropped(s, payload) ==
    IF s.ctx = "n_info"
    THEN LET r == parse_server_and_mac(payload)
         IN  IF r.ok THEN [s EXCEPT !.ctx = "n_resp", !.step = "d"]
             ELSE ConnectFail(s, r)
    ELSE LET r == parse_noise_response(payload, s.hs)
         IN  IF r.ok
             THEN AfterEnvelope([s EXCEPT !.hs = "transport",
                                          !.decoder = "NoiseCoder",
                                          !.encoder = "NoiseCoder",
                                          !.buffer = <<>>])
             ELSE ConnectFail(s, r)

\* noise::connect behind a read_next_message.
handshake_payload(s, payload) ==
    IF s.ctx = "n_info"
    THEN LET r == parse_server_and_mac(payload)
         IN  IF r.ok THEN [s EXCEPT !.ctx = "n_resp", !.step = "d"]
             ELSE ConnectFail(s, r)
    ELSE LET r == parse_noise_response(payload, s.hs)
         IN  IF r.ok
             THEN AfterEnvelope([s EXCEPT !.hs = "transport",
                                          !.decoder = "NoiseCoder",
                                          !.encoder = "NoiseCoder"])
             ELSE ConnectFail(s, r)

\* What the caller of read_next_message does with the payload.
OnPayload(s, payload) ==
    IF s.ctx \in HandshakeCtx THEN handshake_payload(s, payload)
    ELSE try_read_payload(s, payload)

\* StreamDecoder::decode of the installed decoder; n_recv is the receive
\* nonce behind it.
decode(s, buf) ==
    CASE s.decoder = "PlainDecoder" -> plain_read_frame_from_buffer(buf)
      [] s.decoder = "PreHandshakeDecoder" -> noise_read_frame_from_buffer(buf)
      [] s.decoder = "NoiseCoder" ->
            LET r == noise_read_frame_from_buffer(buf)
            IN  IF r.kind # "some" THEN r
                ELSE LET p == noise_decrypt(s.n_recv, r.frame)
                     IN  IF p.ok THEN [r EXCEPT !.frame = p.payload]
                         ELSE [kind |-> "err", err |-> "NoiseHandshake", rest |-> r.rest]

\* read_next_message returns Ok(payload) to its caller.
Decoded(s, d) ==
    OnPayload(Logged([s EXCEPT !.buffer = d.rest,
                               !.n_recv = IF s.decoder = "NoiseCoder"
                                          THEN s.n_recv + 1 ELSE s.n_recv],
                     ReadEvent(s.ctx, d.frame)),
              d.frame)

\* read_next_message does not return: it waits for the socket.  Both uses of
\* the decoder are `if let Ok(Some(decoded)) = ...`, so an Err of the decoder
\* is dropped like an Ok(None).
NotDecoded(s, d) == [s EXCEPT !.buffer = d.rest, !.step = "r"]

\* One run of the decoder inside read_next_message, on the buffer buf.
read_next_message(s, buf) ==
    LET d == decode(s, buf)
    IN  IF d.kind = "some" THEN Decoded(s, d)
        ELSE IF d.kind = "panic"
        THEN Dropped(s, "panicked")
        ELSE NotDecoded(s, d)

\* The client runs on to its next await point: a read_next_message it enters
\* (step "d") first runs the decoder on what is buffered.
RECURSIVE Settle(_)
Settle(s) == IF s.step = "d" THEN Settle(read_next_message(s, s.buffer)) ELSE s

\* The step of an action: the client runs from s to its next await point.
Become(s) ==
    \E t \in {Settle(s)} :
        /\ ctx' = t.ctx
        /\ step' = t.step
        /\ pending' = t.pending
        /\ buffer' = t.buffer
        /\ decoder' = t.decoder
        /\ encoder' = t.encoder
        /\ hs' = t.hs
        /\ n_send' = t.n_send
        /\ n_recv' = t.n_recv
        /\ log' = t.log
        /\ net_in' = t.net_in
        /\ srv_sent' = t.srv_sent
        /\ srv_hs' = t.srv_hs
        /\ srv_nonce' = t.srv_nonce

(***************************************************************************)
(* The server and the network: the bytes the client can find on its        *)
(* socket.                                                                 *)
(***************************************************************************)
\* The messages the server sends.  Without connection setup the client looks
\* at no field of a message, and one HelloResponse stands for all messages
\* that are no PingRequest.
ServerMessages ==
    IF cfg.connection_setup
    THEN {HelloResponse(API_VERSION_MAJOR, API_VERSION_MINOR),
          HelloResponse(API_VERSION_MAJOR + 1, API_VERSION_MINOR),
          HelloResponse(API_VERSION_MAJOR, API_VERSION_MINOR - 2),
          ConnectResponse(FALSE), ConnectResponse(TRUE),
          PingRequest}
    ELSE {HelloResponse(API_VERSION_MAJOR, API_VERSION_MINOR), PingRequest}

\* Canonical payloads (type id, inner length, body) the server frames: the
\* messages above and one whose type id (65535) matches no variant.
UnknownTypePayload == <<255, 255, 0, 0>>
ServerPayloads == {message_into_bytes(m) : m \in ServerMessages} \cup {UnknownTypePayload}

\* Frames no well-behaved server sends.
InvalidPreambleFrame == <<2, 0, 0>>
PlainOnNoise == create_frame(message_into_bytes(PingRequest)).frame
NoiseOnPlain == create_noise_frame(<<>>)
BadCiphertextFrame == create_noise_frame(<<255>>)

ServerIdentityFrame == create_noise_frame(<<NOISE_PREAMBLE, 83, ZERO_BYTE, 77, ZERO_BYTE>>)
ServerResponderFrame == create_noise_frame(<<ZERO_BYTE>> \o ResponderMessage)
BadResponderFrame == create_noise_frame(<<ZERO_BYTE, 120>>)
\* A frame of one byte behind the byte 0x01, and one of bytes that are no text.
OneByteTextFrame == create_noise_frame(<<NOISE_PREAMBLE, 72>>)
UndecodableTextFrame == create_noise_frame(<<255, 255, 255>>)

HandshakeFrame(kind) ==
    CASE kind = "identity" -> ServerIdentityFrame
      [] kind = "responder" -> ServerResponderFrame
      [] kind = "bad_responder" -> BadResponderFrame
      [] kind = "one_byte_text" -> OneByteTextFrame
      [] kind = "undecodable_text" -> UndecodableTextFrame

HandshakeKinds ==
    {"identity", "responder", "bad_responder", "one_byte_text", "undecodable_text"}

\* Entries of srv_log: a frame that carries payload for the client's decoder,
\* and a frame the decoder of the connection cannot turn into a payload.
Deliverable(payload) == [ok |-> TRUE, payload |-> payload]
Undeliverable(frame) == [ok |-> FALSE, frame |-> frame]

\* The client observes the socket in read_next_message alone, and a frame
\* sent earlier is the same to it as one sent while it waits there: the server
\* sends while the client waits for the socket to be readable.
Connected == step = "r"

\* The server sends a message in the envelope of the connection; under Noise
\* it has a transport session once it has sent its handshake response.
ServerSendMessage(payload) ==
    /\ Connected
    /\ srv_sent < MaxServerFrames
    /\ IF cfg.key = "none"
       THEN /\ net_in' = net_in \o create_frame(payload).frame
            /\ UNCHANGED srv_nonce
       ELSE /\ "responder" \in srv_hs
            /\ net_in' = net_in \o create_noise_frame(noise_encrypt(srv_nonce, payload))
            /\ srv_nonce' = srv_nonce + 1
    /\ srv_sent' = srv_sent + 1
    /\ srv_log' = Append(srv_log, Deliverable(payload))
    /\ UNCHANGED <<cfg, ctx, step, pending, buffer, decoder, encoder, hs, n_send,
                   n_recv, log, calls, io_errs, srv_hs, writers, unit>>

\* The server sends a frame of the wrong envelope, or one that is no frame.
\* Neither frame decoder ever gets past a foreign preamble at the head of the
\* buffer, so nothing the server sends behind such a frame is ever seen: it
\* is the last thing the server sends.
ServerSendMalformed(frame) ==
    /\ Connected
    /\ srv_sent < MaxServerFrames
    /\ IF cfg.key = "none"
       THEN frame \in {InvalidPreambleFrame, NoiseOnPlain}
       ELSE frame \in {InvalidPreambleFrame, PlainOnNoise}
    /\ net_in' = net_in \o frame
    /\ srv_sent' = MaxServerFrames
    /\ srv_hs' = srv_hs \cup {"identity", "responder"}
    /\ srv_log' = Append(srv_log, Undeliverable(frame))
    /\ UNCHANGED <<cfg, ctx, step, pending, buffer, decoder, encoder, hs, n_send,
                   n_recv, log, calls, io_errs, srv_nonce, writers, unit>>

\* The Noise server sends a transport frame the client's session rejects.
ServerSendBadCiphertext ==
    /\ Connected
    /\ srv_sent < MaxServerFrames
    /\ cfg.key # "none"
    /\ "responder" \in srv_hs
    /\ net_in' = net_in \o BadCiphertextFrame
    /\ srv_sent' = srv_sent + 1
    /\ srv_log' = Append(srv_log, Undeliverable(BadCiphertextFrame))
    /\ UNCHANGED <<cfg, ctx, step, pending, buffer, decoder, encoder, hs, n_send,
                   n_recv, log, calls, io_errs, srv_hs, srv_nonce, writers, unit>>

\* The Noise server sends a handshake frame: its identity, its handshake
\* response, a response the client's Noise state rejects, or a frame of other
\* bytes; two frames at most, in any order, as the handshake reads two.
ServerSendHandshake(kind) ==
    /\ Connected
    /\ cfg.key # "none"
    /\ kind \notin srv_hs
    /\ \A a \in srv_hs : \A b \in srv_hs : a = b
    /\ net_in' = net_in \o HandshakeFrame(kind)
    /\ srv_hs' = srv_hs \cup {kind}
    /\ srv_log' = Append(srv_log, Deliverable(SliceFrom(HandshakeFrame(kind), 3)))
    /\ UNCHANGED <<cfg, ctx, step, pending, buffer, decoder, encoder, hs, n_send,
                   n_recv, log, calls, io_errs, srv_sent, srv_nonce, writers, unit>>

EnvUnchanged == UNCHANGED <<cfg, srv_log, writers, unit>>

(***************************************************************************)
(* The client's steps.                                                     *)
(***************************************************************************)
\* connect() going on to the TCP connect whether an address is set or not.
Connect_address_unchecked ==
    /\ ctx = "init"
    /\ Become([Cur EXCEPT !.ctx = "tcp"])
    /\ UNCHANGED <<calls, io_errs>>
    /\ EnvUnchanged

\* connect(): the address check.
Connect ==
    /\ ctx = "init"
    /\ IF cfg.addr THEN Become([Cur EXCEPT !.ctx = "tcp"])
       ELSE Become(ConnectFail(Cur, Err("Configuration", "Address is not set")))
    /\ UNCHANGED <<calls, io_errs>>
    /\ EnvUnchanged

\* noise::connect writing the noise hello before it looks at the key.
TcpConnected_hello_first ==
    /\ ctx = "tcp"
    /\ IF cfg.key = "none"
       THEN Become(AfterEnvelope(plain_connect(Cur)))
       ELSE LET s == [Cur EXCEPT !.decoder = "PreHandshakeDecoder",
                                 !.encoder = "NoopEncoder"]
                noise_client == create_noise_client(KeyString(cfg.key))
            IN  Become(write_message([s EXCEPT !.ctx = "n_hello", !.step = "w",
                                                !.hs = IF noise_client.ok
                                                       THEN noise_client.val.hs
                                                       ELSE s.hs],
                                      noise_hello))
    /\ UNCHANGED <<calls, io_errs>>
    /\ EnvUnchanged

\* plain::connect and noise::connect: the TCP connection is established.
TcpConnected ==
    /\ ctx = "tcp"
    /\ IF cfg.key = "none"
       THEN Become(AfterEnvelope(plain_connect(Cur)))
       ELSE LET s == [Cur EXCEPT !.decoder = "PreHandshakeDecoder",
                                 !.encoder = "NoopEncoder"]
                noise_client == create_noise_client(KeyString(cfg.key))
            IN  IF noise_client.ok
                THEN Become(write_message([s EXCEPT !.ctx = "n_hello", !.step = "w",
                                                    !.hs = noise_client.val.hs],
                                          noise_hello))
                ELSE Become(ConnectFail(s, noise_client))
    /\ UNCHANGED <<calls, io_errs>>
    /\ EnvUnchanged

\* TcpStream::connect fails.
TcpFailed ==
    /\ ctx = "tcp"
    /\ Become(ConnectFail(Cur, Err("TcpConnect", "")))
    /\ UNCHANGED <<calls, io_errs>>
    /\ EnvUnchanged

\* The timeout around the TCP connect and the envelope handshake elapses.
ConnectTimeout ==
    /\ ctx \in EnvelopeCtx
    /\ Become(ConnectFail(Cur, TimeoutErr(as_millis(cfg.timeout))))
    /\ UNCHANGED <<calls, io_errs>>
    /\ EnvUnchanged

\* What follows a write_message that returned Ok.
AfterWrite(s) ==
    CASE s.ctx = "n_hello" ->
            write_message([s EXCEPT !.ctx = "n_hs", !.hs = "sent_e"], noise_handshake)
      [] s.ctx = "n_hs" -> [s EXCEPT !.ctx = "n_info", !.step = "d", !.pending = <<>>]
      [] s.ctx \in SetupCtx \cup {"try_read"} -> [s EXCEPT !.step = "d", !.pending = <<>>]
      [] s.ctx \in {"try_write", "close"} -> CallReturn(s, Ok(Unit))

\* The byte counts a partial OwnedWriteHalf::try_write accepts of a frame:
\* the shortest proper prefix stands for all of them.
PartialCounts(frame) == {n \in {1} : n < Len(frame)}

\* write_message: the socket is writable and try_write returns Ok(n), n the
\* whole frame.
WriteOk ==
    /\ step \in {"w", "pong"}
    /\ Become(AfterWrite(Logged(Cur, WriteEvent(ctx, pending, Len(pending)))))
    /\ UNCHANGED <<calls, io_errs>>
    /\ EnvUnchanged

\* write_message: try_write returns Ok(n), n less than the whole frame.
WritePartial(n) ==
    /\ step \in {"w", "pong"}
    /\ n \in PartialCounts(pending)
    /\ io_errs < MaxFaults
    /\ io_errs' = io_errs + 1
    /\ Become(AfterWrite(Logged(Cur, WriteEvent(ctx, pending, n))))
    /\ UNCHANGED calls
    /\ EnvUnchanged

\* write_message: ready() or try_write fails with an I/O error.
WriteErr ==
    /\ step \in {"w", "pong"}
    /\ io_errs < MaxFaults
    /\ io_errs' = io_errs + 1
    /\ Become(IoFail(Cur, Err("Write", "")))
    /\ UNCHANGED calls
    /\ EnvUnchanged

\* The byte counts try_read_buf reads of the bytes available: all of them, or
\* a single byte (any split of the stream is a run of such reads).
ReadCounts(available) == {n \in {1, Len(available)} : n >= 1 /\ n <= Len(available)}

\* read_next_message: the socket is readable, try_read_buf appends n bytes
\* and the decoder runs again.
SocketRead(n) ==
    /\ step = "r"
    /\ n \in ReadCounts(net_in)
    /\ Become(read_next_message([Cur EXCEPT !.net_in = SliceFrom(net_in, n)],
                                 buffer \o Take(net_in, n)))
    /\ UNCHANGED <<cfg, calls, io_errs, srv_log, writers, unit>>

\* The mark in srv_log of the server closing the connection.
PeerClosed == [ok |-> FALSE, frame |-> <<>>, closed |-> TRUE]

\* read_next_message taking the end of the stream for a read error.
on_zero_read_fails(s) == IoFail(s, Err("Read", ""))

\* read_next_message behind a try_read_buf that returned Ok(0): it goes
\* round its loop, the decoder is not run.
on_zero_read(s) == [s EXCEPT !.step = "r"]

\* read_next_message: the server has closed the connection, everything it
\* sent has been read, the socket is readable and try_read_buf returns Ok(0).
\* The server sends nothing from here on.
SocketReadZero ==
    /\ step = "r"
    /\ net_in = <<>>
    /\ io_errs < MaxFaults
    /\ io_errs' = io_errs + 1
    /\ srv_log' = Append(srv_log, PeerClosed)
    /\ Become([on_zero_read(Cur) EXCEPT !.srv_sent = MaxServerFrames,
                                        !.srv_hs = {"identity", "responder"}])
    /\ UNCHANGED <<cfg, calls, writers, unit>>

\* read_next_message: ready() or try_read_buf fails with an I/O error.
ReadErr ==
    /\ step = "r"
    /\ io_errs < MaxFaults
    /\ io_errs' = io_errs + 1
    /\ Become(IoFail(Cur, Err("Read", "")))
    /\ UNCHANGED calls
    /\ EnvUnchanged

\* The owner of the Ready client calls try_read.
CallTryRead ==
    /\ ctx = "ready"
    /\ Become([Cur EXCEPT !.ctx = "try_read", !.step = "d"])
    /\ UNCHANGED <<calls, io_errs>>
    /\ EnvUnchanged

\* The messages the owner writes.
CallerMessages == {HelloRequest}

\* The owner of the Ready client calls try_write.
CallTryWrite(message) ==
    /\ ctx = "ready"
    /\ calls < MaxCallerWrites
    /\ calls' = calls + 1
    /\ Become(try_write([Cur EXCEPT !.ctx = "try_write", !.step = "w"], message))
    /\ UNCHANGED io_errs
    /\ EnvUnchanged

\* The owner of the Ready client calls close.
CallClose ==
    /\ ctx = "ready"
    /\ Become(try_write([Cur EXCEPT !.ctx = "close", !.step = "w"], DisconnectRequest))
    /\ UNCHANGED <<calls, io_errs>>
    /\ EnvUnchanged

\* The timeouts given to the builders: the default of EspHomeClientBuilder::new
\* and one with a part of a millisecond.
DefaultTimeout == [secs |-> 30, nanos |-> 0]
Timeouts == {DefaultTimeout, [secs |-> 2, nanos |-> 1500000]}

\* The builders connect() is called on.  The password is used by connection
\* setup alone and never reaches the envelope, so it is set on plaintext
\* builders with connection setup; the timeout is used by the envelope phase
\* alone, so it is set on builders without connection setup; a builder
\* without address or with a key that fails validation never gets to use its
\* other options.
Builders ==
    {b \in [addr : BOOLEAN, key : {"none"} \cup KeyNames, password : BOOLEAN,
            timeout : Timeouts, connection_setup : BOOLEAN, handle_ping : BOOLEAN] :
        /\ b.password => b.connection_setup /\ b.key = "none"
        /\ b.timeout # DefaultTimeout =>
              b.addr /\ b.key \in {"none", "valid"} /\ ~b.connection_setup /\ ~b.handle_ping
        /\ ~b.addr \/ b.key \notin {"none", "valid"} => b.connection_setup /\ b.handle_ping
        /\ ~b.addr => b.key = "none"}

Init ==
    /\ cfg \in Builders
    /\ ctx = "init"
    /\ step = "-"
    /\ pending = <<>>
    /\ buffer = <<>>
    /\ decoder = "NoopDecoder"
    /\ encoder = "NoopEncoder"
    /\ hs = "none"
    /\ n_send = 0
    /\ n_recv = 0
    /\ log = <<>>
    /\ calls = 0
    /\ io_errs = 0
    /\ net_in = <<>>
    /\ srv_sent = 0
    /\ srv_hs = {}
    /\ srv_nonce = 0
    /\ srv_log = <<>>
    /\ writers = <<>>
    /\ unit = IdleUnit

Next ==
    \/ Connect
    \/ TcpConnected
    \/ TcpFailed
    \/ ConnectTimeout
    \/ WriteOk
    \/ \E n \in PartialCounts(pending) : WritePartial(n)
    \/ WriteErr
    \/ \E n \in ReadCounts(net_in) : SocketRead(n)
    \/ SocketReadZero
    \/ ReadErr
    \/ CallTryRead
    \/ \E m \in CallerMessages : CallTryWrite(m)
    \/ CallClose
    \/ \E p \in ServerPayloads : ServerSendMessage(p)
    \/ \E f \in {InvalidPreambleFrame, NoiseOnPlain, PlainOnNoise} : ServerSendMalformed(f)
    \/ ServerSendBadCiphertext
    \/ \E k \in HandshakeKinds : ServerSendHandshake(k)

Spec == Init /\ [][Next]_vars

(***************************************************************************)
(* Concurrent writers.  Once connect() has returned, the owner calls        *)
(* write_stream() and hands the clones to tasks of their own; every handle  *)
(* shares the socket (Arc<OwnedWriteHalf>) and the encoder                  *)
(* (Arc<Box<dyn StreamEncoder>>), and write_message takes &self.            *)
(***************************************************************************)
Handles == 1..MaxHandles

\* A handle that is not inside write_message.
IdleWriter(done) == [pc |-> "idle", frame |-> <<>>, calls |-> done]

\* The socket write of a handle: the frame handed to try_write, the count it
\* returned, and the handles that were inside write_message at that time.
HandleWriteEvent(h, call, bytes, n, others) ==
    [ev |-> "write", by |-> "write_stream", bytes |-> bytes, n |-> n,
     h |-> h, call |-> call, others |-> others]

\* write_message going round its loop with the bytes try_write did not take.
write_message_written_rest_retried(w, n) ==
    IF n < Len(w.frame) THEN [w EXCEPT !.frame = SliceFrom(w.frame, n)]
    ELSE IdleWriter(w.calls)

\* write_message after try_write returned Ok(n): it returns Ok(()).
write_message_written(w, n) == IdleWriter(w.calls)

\* The try_write calls made on the handles 1..h so far.
RECURSIVE HandleWrites(_)
HandleWrites(h) == IF h = 0 THEN 0 ELSE writers[h].calls + HandleWrites(h - 1)

\* EspHomeClientWriteStream::try_write up to the first wait for writability:
\* the message is encoded; under Noise this takes the next send nonce.
WriterTryWrite(h, message) ==
    /\ writers[h].pc = "idle"
    /\ HandleWrites(MaxHandles) < MaxHandleWrites
    /\ LET e == encode(Cur, message_into_bytes(message))
       IN  /\ writers' = [writers EXCEPT ![h] = [pc |-> "w", frame |-> e.frame,
                                                 calls |-> @.calls + 1]]
           /\ n_send' = e.n_send
    /\ UNCHANGED <<cfg, ctx, step, pending, buffer, decoder, encoder, hs, n_recv,
                   log, calls, io_errs, net_in, srv_sent, srv_hs, srv_nonce, srv_log,
                   unit>>

\* The byte counts try_write returns for a frame: all of it or, as one of the
\* faults of the connection, a part.
WriteCounts(frame) ==
    {Len(frame)} \cup (IF io_errs < MaxFaults THEN PartialCounts(frame) ELSE {})

\* write_message of a handle: the socket is writable and try_write returns
\* Ok(n).
WriterSocketWrite(h, n) ==
    /\ writers[h].pc = "w"
    /\ n \in WriteCounts(writers[h].frame)
    /\ log' = Append(log, HandleWriteEvent(h, writers[h].calls, writers[h].frame, n,
                                           {g \in Handles \ {h} : writers[g].pc = "w"}))
    /\ writers' = [writers EXCEPT ![h] = write_message_written(@, n)]
    /\ io_errs' = IF n < Len(writers[h].frame) THEN io_errs + 1 ELSE io_errs
    /\ UNCHANGED <<cfg, ctx, step, pending, buffer, decoder, encoder, hs, n_send,
                   n_recv, calls, net_in, srv_sent, srv_hs, srv_nonce, srv_log, unit>>

\* write_message of a handle: ready() or try_write fails with an I/O error.
WriterWriteErr(h) ==
    /\ writers[h].pc = "w"
    /\ io_errs < MaxFaults
    /\ io_errs' = io_errs + 1
    /\ log' = Append(log, RetEvent("try_write", "write_stream", Err("Write", "")))
    /\ writers' = [writers EXCEPT ![h] = IdleWriter(@.calls)]
    /\ UNCHANGED <<cfg, ctx, step, pending, buffer, decoder, encoder, hs, n_send,
                   n_recv, calls, net_in, srv_sent, srv_hs, srv_nonce, srv_log, unit>>

\* What connect() leaves behind when it returns a client without connection
\* setup: no key, and a key with the handshake done.
ConnectedLog(key) ==
    IF key = "none" THEN <<RetEvent("connect", "tcp", Ok(Client))>>
    ELSE <<WriteEvent("n_hello", noise_hello, Len(noise_hello)),
           WriteEvent("n_hs", noise_handshake, Len(noise_handshake)),
           ReadEvent("n_info", SliceFrom(ServerIdentityFrame, 3)),
           ReadEvent("n_resp", SliceFrom(ServerResponderFrame, 3)),
           RetEvent("connect", "n_resp", Ok(Client))>>

InitWriters ==
    /\ cfg \in {b \in Builders : b.addr /\ b.key \in {"none", "valid"} /\ ~b.connection_setup
                                  /\ b.handle_ping}
    /\ ctx = "ready"
    /\ step = "-"
    /\ pending = <<>>
    /\ buffer = <<>>
    /\ decoder = (IF cfg.key = "none" THEN "PlainDecoder" ELSE "NoiseCoder")
    /\ encoder = (IF cfg.key = "none" THEN "PlainEncoder" ELSE "NoiseCoder")
    /\ hs = (IF cfg.key = "none" THEN "none" ELSE "transport")
    /\ n_send = 0
    /\ n_recv = 0
    /\ log = ConnectedLog(cfg.key)
    /\ calls = 0
    /\ io_errs = 0
    /\ net_in = <<>>
    /\ srv_sent = 0
    /\ srv_hs = (IF cfg.key = "none" THEN {} ELSE {"identity", "responder"})
    /\ srv_nonce = 0
    /\ srv_log = (IF cfg.key = "none" THEN <<>>
                  ELSE <<Deliverable(SliceFrom(ServerIdentityFrame, 3)),
                         Deliverable(SliceFrom(ServerResponderFrame, 3))>>)
    /\ writers = [h \in Handles |-> IdleWriter(0)]
    /\ unit = IdleUnit

NextWriters ==
    \/ \E h \in Handles, m \in CallerMessages : WriterTryWrite(h, m)
    \/ \E h \in Handles : \E n \in WriteCounts(writers[h].frame) : WriterSocketWrite(h, n)
    \/ \E h \in Handles : WriterWriteErr(h)

SpecWriters == InitWriters /\ [][NextWriters]_vars

\* The write handles of a Noise client together with its reader: the owner
\* reads with try_read while the handles write.  The server sends messages,
\* and the socket hands over all it has in one read.
InitSession == InitWriters /\ cfg.key = "valid"

NextSession ==
    \/ NextWriters
    \/ CallTryRead
    \/ \E m \in ServerMessages : ServerSendMessage(message_into_bytes(m))
    \/ \E n \in {Len(net_in)} \cap ReadCounts(net_in) : SocketRead(n)
    \/ WriteOk

SpecSession == InitSession /\ [][NextSession]_vars

(***************************************************************************)
(* The frame codecs run by themselves, as in the unit tests of plain.rs    *)
(* and noise.rs: a payload is framed, the frame or a part of it is put in  *)
(* a buffer, and the frame reader runs on the buffer.  No client takes     *)
(* part.                                                                   *)
(***************************************************************************)
\* The builder as EspHomeClientBuilder::new leaves it.
DefaultBuilder == [addr |-> FALSE, key |-> "none", password |-> FALSE,
                   timeout |-> DefaultTimeout, connection_setup |-> TRUE,
                   handle_ping |-> TRUE]

NoClient ==
    /\ cfg = DefaultBuilder
    /\ ctx = "init"
    /\ step = "-"
    /\ pending = <<>>
    /\ buffer = <<>>
    /\ decoder = "NoopDecoder"
    /\ encoder = "NoopEncoder"
    /\ hs = "none"
    /\ n_send = 0
    /\ n_recv = 0
    /\ log = <<>>
    /\ calls = 0
    /\ io_errs = 0
    /\ net_in = <<>>
    /\ srv_sent = 0
    /\ srv_hs = {}
    /\ srv_nonce = 0
    /\ srv_log = <<>>
    /\ writers = <<>>

ClientUnchanged ==
    UNCHANGED <<cfg, ctx, step, pending, buffer, decoder, encoder, hs, n_send, n_recv,
                log, calls, io_errs, net_in, srv_sent, srv_hs, srv_nonce, srv_log,
                writers>>

\* The type ids and bodies framed: the type ids at the steps of the LEB128
\* length (one, two, three bytes), every body of up to MaxBodyLen bytes, and
\* bodies whose length takes two and three bytes.
UnitTypeIds == {0, 1, 127, 128, 16383, 16384, U16_MODULUS - 1}
BodyBytes == {1, 200}
LongBodyLens == {128, 16384}

RECURSIVE BodiesOfLen(_)
BodiesOfLen(n) ==
    IF n = 0 THEN {<<>>}
    ELSE {<<b>> \o r : b \in BodyBytes, r \in BodiesOfLen(n - 1)}

UnitBodies ==
    UNION {BodiesOfLen(n) : n \in 0..MaxBodyLen}
    \cup {<<>> \o Repeat(7, n) : n \in LongBodyLens}

\* The payload the tests build: type id, length of the body, body.
canonical_payload(type_id, body) ==
    to_be_bytes(type_id) \o to_be_bytes(Len(body)) \o body

\* Bytes on the wire that are no frame of create_frame: a length, and a type
\* id, of four LEB128 bytes, and lengths of three bytes that denote 65536,
\* 65537 and 81919.
RawPlainFrames ==
    {<<PLAIN_PREAMBLE, 128, 128, 128, 1, 1>>,
     <<PLAIN_PREAMBLE, 255, 255, 255, 0, 1, 9>>,
     <<PLAIN_PREAMBLE, 0, 128, 128, 128, 1>>,
     <<PLAIN_PREAMBLE, 1, 255, 255, 255, 0, 9>>,
     <<PLAIN_PREAMBLE, 128, 128, 4, 1>>,
     <<PLAIN_PREAMBLE, 129, 128, 4, 1, 9>>,
     <<PLAIN_PREAMBLE, 255, 255, 4, 1, 9>>}

\* Buffers that open with the preamble of the other envelope, or with a byte
\* that is no preamble.
ForeignFrames ==
    {<<PLAIN_PREAMBLE, 0, 1>>,
     <<PLAIN_PREAMBLE, 1, 1, 9>>,
     <<NOISE_PREAMBLE, 0, 1, 7>>,
     <<NOISE_PREAMBLE, 0, 0>>,
     <<2, 0, 0>>,
     <<255, 0, 5, 1, 2, 3, 4, 5>>}

\* The payloads handed to the plaintext encoder by themselves: every
\* sequence of up to MaxPayloadLen of these bytes.
PayloadBytes == {0, 1, 200}

RECURSIVE PayloadsOfLen(_)
PayloadsOfLen(n) ==
    IF n = 0 THEN {<<>>}
    ELSE {<<b>> \o r : b \in PayloadBytes, r \in PayloadsOfLen(n - 1)}

EncodePayloads == UNION {PayloadsOfLen(n) : n \in 0..MaxPayloadLen}

\* Bytes that follow a frame in the buffer: the start of a next frame.
FollowingBytes == {<<NOISE_PREAMBLE>>, <<NOISE_PREAMBLE, 0, 1>>, <<PLAIN_PREAMBLE, 0, 1, 200>>}

\* Messages of every variant of the registry, with fields at their defaults
\* and away from them.
RegistryMessages ==
    {[variant |-> "HelloRequest", client_info |-> c, api_version_major |-> ma,
      api_version_minor |-> mi] : c \in {<<>>, <<65>>, <<65, 200>>}, ma \in {0, 1}, mi \in {0, 10}}
    \cup {HelloResponse(ma, mi) : ma \in {0, 1, 2}, mi \in {0, 8, 10}}
    \cup {[variant |-> "ConnectRequest", password |-> pw] : pw \in {<<>>, <<112>>, <<112, 119>>}}
    \cup {ConnectResponse(FALSE), ConnectResponse(TRUE)}
    \cup {DisconnectRequest, PingRequest, PingResponse}

\* The inner length bytes a payload is decoded with: the ones written, and
\* lengths that are not the length of the body.
InnerLengths(payload) ==
    IF Len(payload) < 4 THEN {}
    ELSE {from_be_bytes(payload[3], payload[4]), 0, Len(payload), U16_MODULUS - 1}

InitCodec ==
    /\ NoClient
    /\ unit \in {[IdleUnit EXCEPT !.test = t, !.stage = "input", !.value = ty, !.body = b] :
                     t \in {"plain", "noise"}, ty \in UnitTypeIds, b \in UnitBodies}
               \cup {[IdleUnit EXCEPT !.test = "plain_raw", !.stage = "framed", !.frame = f] :
                         f \in RawPlainFrames \cup ForeignFrames}
               \cup {[IdleUnit EXCEPT !.test = "noise_raw", !.stage = "framed", !.frame = f] :
                         f \in ForeignFrames}
               \cup {[IdleUnit EXCEPT !.test = "plain_encode", !.stage = "input", !.body = b] :
                         b \in EncodePayloads}
               \cup {[IdleUnit EXCEPT !.test = "registry", !.stage = "input", !.msg = m] :
                         m \in RegistryMessages}

\* create_frame, and create_noise_frame, of the payload.
UnitFrame ==
    /\ unit.test \in {"plain", "noise"}
    /\ unit.stage = "input"
    /\ unit' = [unit EXCEPT
                   !.stage = "framed",
                   !.frame = IF unit.test = "plain"
                             THEN create_frame(canonical_payload(unit.value, unit.body)).frame
                             ELSE create_noise_frame(canonical_payload(unit.value, unit.body))]
    /\ ClientUnchanged

\* How much of the frame the buffer holds: all of it, or a part cut near the
\* start or near the end of the frame.
Cuts(frame) ==
    {n \in 0..Len(frame) : n <= MaxCut \/ n >= Len(frame) - MaxCut}

UnitReceive(n) ==
    /\ unit.stage = "framed"
    /\ n \in Cuts(unit.frame)
    /\ unit' = [unit EXCEPT !.stage = "received", !.buffer = Take(unit.frame, n)]
    /\ ClientUnchanged

\* The buffer holds the whole frame and bytes behind it.
UnitReceiveFollowed(extra) ==
    /\ unit.stage = "framed"
    /\ unit.test \in {"plain", "noise"}
    /\ extra \in FollowingBytes
    /\ unit' = [unit EXCEPT !.stage = "received", !.buffer = unit.frame \o extra]
    /\ ClientUnchanged

\* PlainEncoder::encode of a payload.
UnitEncode ==
    /\ unit.test = "plain_encode"
    /\ unit.stage = "input"
    /\ unit' = [unit EXCEPT !.stage = "encoded", !.out = create_frame(unit.body)]
    /\ ClientUnchanged

\* Vec::<u8>::from of a message.
UnitMessageEncode ==
    /\ unit.test = "registry"
    /\ unit.stage = "input"
    /\ unit' = [unit EXCEPT !.stage = "payload", !.frame = message_into_bytes(unit.msg)]
    /\ ClientUnchanged

\* The payload reaches the decoder as it was encoded, or with other inner
\* length bytes.
UnitRewriteLength(len) ==
    /\ unit.test = "registry"
    /\ unit.stage = "payload"
    /\ len \in InnerLengths(unit.frame)
    /\ unit' = [unit EXCEPT !.stage = "received",
                            !.buffer = Take(unit.frame, 2) \o to_be_bytes(len)
                                       \o SliceFrom(unit.frame, 4)]
    /\ ClientUnchanged

\* EspHomeMessage::try_from of the payload.
UnitMessageDecode ==
    /\ unit.test = "registry"
    /\ unit.stage = "received"
    /\ unit' = [unit EXCEPT !.stage = "decoded", !.out = message_try_from(unit.buffer)]
    /\ ClientUnchanged

\* read_frame_from_buffer of plain.rs, and of noise.rs, on the buffer.
UnitDecode ==
    /\ unit.test \in {"plain", "plain_raw", "noise", "noise_raw"}
    /\ unit.stage = "received"
    /\ unit' = [unit EXCEPT
                   !.stage = "decoded",
                   !.out = IF unit.test \in {"plain", "plain_raw"}
                           THEN plain_read_frame_from_buffer(unit.buffer)
                           ELSE noise_read_frame_from_buffer(unit.buffer)]
    /\ ClientUnchanged

NextCodec ==
    \/ UnitFrame
    \/ UnitEncode
    \/ \E n \in Cuts(unit.frame) : UnitReceive(n)
    \/ \E extra \in FollowingBytes : UnitReceiveFollowed(extra)
    \/ UnitDecode
    \/ UnitMessageEncode
    \/ \E len \in InnerLengths(unit.frame) : UnitRewriteLength(len)
    \/ UnitMessageDecode

SpecCodec == InitCodec /\ [][NextCodec]_vars

\* The plaintext reader on a stream of frames.  The payloads framed: type
\* ids and body lengths of one, two and three LEB128 bytes.
StreamSeqs ==
    LET payloads == {canonical_payload(1, <<>>),
                     canonical_payload(128, <<200>>),
                     canonical_payload(16384, <<200>>),
                     canonical_payload(16384, <<>> \o Repeat(7, 128))}
    IN  UNION {[1..n -> payloads] : n \in 1..MaxStreamFrames}

\* The bytes of the frames of the payloads, one behind the other.
RECURSIVE Wire(_)
Wire(payloads) ==
    IF payloads = <<>> THEN <<>>
    ELSE create_frame(payloads[1]).frame \o Wire(Tail(payloads))

\* Successive read_next_message calls as far as they return without a socket
\* read: each runs the decoder on the buffer first and returns the payload of
\* a whole frame; the first that finds none waits for the socket, with the
\* buffer as the decoder left it.
RECURSIVE read_buffered(_)
read_buffered(buf) ==
    LET d == plain_read_frame_from_buffer(buf)
    IN  IF d.kind = "some"
        THEN LET r == read_buffered(d.rest)
             IN  [seq |-> <<d.frame>> \o r.seq, rest |-> r.rest]
        ELSE [seq |-> <<>>, rest |-> d.rest]

InitStream ==
    /\ NoClient
    /\ unit \in {[IdleUnit EXCEPT !.test = "stream", !.stage = "reading",
                                  !.msg = [payloads |-> ps], !.frame = Wire(ps),
                                  !.out = [kind |-> "payloads", seq |-> <<>>]] :
                     ps \in StreamSeqs}

\* One socket read of n bytes (unit.value counts the bytes read so far), and
\* the calls of read_next_message that return behind it.
StreamRead(n) ==
    /\ unit.test = "stream"
    /\ n \in 1..(Len(unit.frame) - unit.value)
    /\ LET r == read_buffered(unit.buffer
                              \o SubSeq(unit.frame, unit.value + 1, unit.value + n))
       IN  unit' = [unit EXCEPT !.value = unit.value + n,
                                !.buffer = r.rest,
                                !.out = [kind |-> "payloads", seq |-> unit.out.seq \o r.seq]]
    /\ ClientUnchanged

NextStream == \E n \in 1..Len(unit.frame) : StreamRead(n)

SpecStream == InitStream /\ [][NextStream]_vars

\* LEB128 by itself, on every value of a u16.
InitLeb128 ==
    /\ NoClient
    /\ unit \in {[IdleUnit EXCEPT !.test = "leb128", !.stage = "input", !.value = v] :
                     v \in 0..(U16_MODULUS - 1)}

Leb128Encode ==
    /\ unit.test = "leb128"
    /\ unit.stage = "input"
    /\ unit' = [unit EXCEPT !.stage = "encoded", !.frame = convert_to_leb128(unit.value)]
    /\ ClientUnchanged

Leb128Decode ==
    /\ unit.test = "leb128"
    /\ unit.stage = "encoded"
    /\ unit' = [unit EXCEPT !.stage = "decoded", !.out = convert_from_leb128(unit.frame, 0)]
    /\ ClientUnchanged

NextLeb128 == Leb128Encode \/ Leb128Decode

SpecLeb128 == InitLeb128 /\ [][NextLeb128]_vars

(***************************************************************************)
(* Reading the history.                                                    *)
(***************************************************************************)
\* The contexts in which try_read runs: the two loops of connection_setup
\* and the public call.
ReadCtx == SetupCtx \cup {"try_read"}

\* The canonical payload inside a frame the client hands to its socket, as the
\* peer of the connection decodes it (under Noise with the nonce the frame was
\* encrypted under); <<>> when the bytes carry none.
Carried(bytes) ==
    IF cfg.key = "none"
    THEN LET d == plain_read_frame_from_buffer(bytes)
         IN  IF d.kind = "some" THEN d.frame ELSE <<>>
    ELSE LET d == noise_read_frame_from_buffer(bytes)
         IN  IF d.kind = "some" /\ Len(d.frame) >= 1
             THEN noise_decrypt(d.frame[1], d.frame).payload
             ELSE <<>>

\* The message inside a canonical payload; [ok |-> FALSE, ...] when none.
Message(payload) == message_try_from(payload)

IsMessage(payload, variant) ==
    LET m == Message(payload) IN m.ok /\ m.msg.variant = variant

IsRead(e, variant) == e.ev = "read" /\ e.by \in ReadCtx /\ IsMessage(e.payload, variant)
IsWrite(e, variant) == e.ev = "write" /\ IsMessage(Carried(e.bytes), variant)
IsErrReturn(e) == e.ev = "ret" /\ ~e.res.ok
IsOkReturn(e, op) == e.ev = "ret" /\ e.op = op /\ e.res.ok

(***************************************************************************)
(* C1                                                                      *)
(***************************************************************************)
\* C1: with handle_ping on, every PingRequest that try_read decodes is
\* followed at once by one write of a PingResponse by the same try_read (the
\* write is in progress, was made, or failed and the error was returned)
\* before anything else is read; a PingResponse is written by try_read only
\* in answer to such a PingRequest, once; and try_read never returns a
\* PingRequest to its caller.
C1_PingAnsweredOnce ==
    cfg.handle_ping =>
        /\ \A i \in DOMAIN log :
              IsRead(log[i], "PingRequest") =>
                  IF i = Len(log)
                  THEN /\ ctx = log[i].by
                       /\ step = "pong"
                       /\ IsMessage(Carried(pending), "PingResponse")
                  ELSE \/ IsWrite(log[i + 1], "PingResponse") /\ log[i + 1].by = log[i].by
                       \/ IsErrReturn(log[i + 1]) /\ log[i + 1].res.err = "Write"
        /\ \A j \in DOMAIN log :
              IsWrite(log[j], "PingResponse") /\ log[j].by \in ReadCtx =>
                  j > 1 /\ IsRead(log[j - 1], "PingRequest")
        /\ \A k \in DOMAIN log :
              IsOkReturn(log[k], "try_read") => log[k].res.val.variant # "PingRequest"

\* A try_read answered a PingRequest and went on to read the next frame.
C1_Witness ==
    /\ cfg.handle_ping
    /\ \E i \in DOMAIN log :
          /\ i + 2 <= Len(log)
          /\ IsRead(log[i], "PingRequest")
          /\ IsWrite(log[i + 1], "PingResponse")
          /\ log[i + 2].ev = "read"

(***************************************************************************)
(* C2                                                                      *)
(***************************************************************************)
\* The write of the HelloRequest of connection_setup: the compiled-in version.
IsHelloRequestWrite(e) ==
    /\ e.ev = "write"
    /\ e.by = "s_hello"
    /\ Message(Carried(e.bytes)) =
          [ok |-> TRUE,
           msg |-> [variant |-> "HelloRequest", client_info |-> ClientInfo,
                    api_version_major |-> API_VERSION_MAJOR,
                    api_version_minor |-> API_VERSION_MINOR]]

\* try_read returned this message to the loop of connection_setup in phase by.
IsSetupRead(e, by, variant) ==
    IsOkReturn(e, "try_read") /\ e.by = by /\ e.res.val.variant = variant

\* C2: with connection setup on, the first frame connect() writes behind the
\* envelope is the HelloRequest with the compiled-in major and minor, and it
\* is written before any application message is read; a ConnectRequest is
\* written only directly after a HelloResponse with the client's major was
\* read, and it carries the password, empty if unset; connect() returns a
\* client only directly after a ConnectResponse with invalid_password false
\* was read.
C2_SetupOrder ==
    cfg.connection_setup =>
        /\ \A i \in DOMAIN log :
              /\ log[i].ev \in {"read", "write"}
              /\ log[i].by \notin HandshakeCtx
              /\ \A j \in 1..(i - 1) : log[j].by \in EnvelopeCtx
              => IsHelloRequestWrite(log[i])
        /\ \A i \in DOMAIN log :
              log[i].ev = "read" /\ log[i].by \in ReadCtx =>
                  \E j \in 1..(i - 1) : IsHelloRequestWrite(log[j])
        /\ \A i \in DOMAIN log :
              log[i].ev = "write" /\ log[i].by = "s_conn" /\ ~IsWrite(log[i], "PingResponse") =>
                  /\ Message(Carried(log[i].bytes)) =
                        [ok |-> TRUE,
                         msg |-> [variant |-> "ConnectRequest",
                                  password |-> IF cfg.password THEN Password ELSE <<>>]]
                  /\ i > 1
                  /\ IsSetupRead(log[i - 1], "s_hello", "HelloResponse")
                  /\ log[i - 1].res.val.api_version_major = API_VERSION_MAJOR
        /\ \A i \in DOMAIN log :
              IsWrite(log[i], "ConnectRequest") => log[i].by = "s_conn"
        /\ \A i \in DOMAIN log :
              IsOkReturn(log[i], "connect") =>
                  /\ i > 1
                  /\ IsSetupRead(log[i - 1], "s_conn", "ConnectResponse")
                  /\ ~log[i - 1].res.val.invalid_password
                  /\ \E j \in 1..(i - 1) : IsWrite(log[j], "ConnectRequest")

\* connect() went through the whole setup with a password and returned a client.
C2_Witness ==
    /\ cfg.connection_setup
    /\ cfg.password
    /\ \E i \in DOMAIN log : IsOkReturn(log[i], "connect")

(***************************************************************************)
(* C3                                                                      *)
(***************************************************************************)
IsConnectErr(e, err) == e.ev = "ret" /\ e.op = "connect" /\ ~e.res.ok /\ e.res.err = err

\* C3: a HelloResponse read during setup whose major differs from the
\* client's makes connect() return ProtocolMismatch at once: nothing is
\* written after it, no ConnectRequest is ever sent, no client is returned and
\* the streams are dropped; a HelloResponse with the client's major, whatever
\* its minor, is followed by the write of the ConnectRequest; and connect()
\* returns ProtocolMismatch in no other case.
C3_ProtocolMismatch ==
    /\ \A i \in DOMAIN log :
          IsSetupRead(log[i], "s_hello", "HelloResponse") =>
              IF log[i].res.val.api_version_major # API_VERSION_MAJOR
              THEN /\ Len(log) = i + 1
                   /\ log[i + 1] = RetEvent("connect", "s_hello", Err("ProtocolMismatch", ""))
                   /\ ctx = "failed"
                   /\ buffer = <<>> /\ pending = <<>>
                   /\ \A j \in DOMAIN log : ~IsWrite(log[j], "ConnectRequest")
                   /\ \A j \in DOMAIN log : ~IsOkReturn(log[j], "connect")
              ELSE IF i = Len(log)
                   THEN /\ ctx = "s_conn"
                        /\ step = "w"
                        /\ IsMessage(Carried(pending), "ConnectRequest")
                   ELSE \/ IsWrite(log[i + 1], "ConnectRequest")
                        \/ IsConnectErr(log[i + 1], "Write")
    /\ \A i \in DOMAIN log :
          IsConnectErr(log[i], "ProtocolMismatch") =>
              /\ i > 1
              /\ IsSetupRead(log[i - 1], "s_hello", "HelloResponse")
              /\ log[i - 1].res.val.api_version_major # API_VERSION_MAJOR

\* connect() failed with ProtocolMismatch.
C3_Witness ==
    \E i \in DOMAIN log : IsConnectErr(log[i], "ProtocolMismatch")

(***************************************************************************)
(* C4                                                                      *)
(***************************************************************************)
\* C4: a ConnectResponse read during setup ends connect() at once: with
\* invalid_password true it returns Authentication with the reason "Invalid
\* password", no client is returned and the streams are dropped; with
\* invalid_password false it returns the client.
C4_Authentication ==
    /\ \A i \in DOMAIN log :
          IsSetupRead(log[i], "s_conn", "ConnectResponse") =>
              /\ i < Len(log)
              /\ IF log[i].res.val.invalid_password
                 THEN /\ Len(log) = i + 1
                      /\ log[i + 1] = RetEvent("connect", "s_conn",
                                               Err("Authentication", "Invalid password"))
                      /\ ctx = "failed"
                      /\ \A j \in DOMAIN log : ~IsOkReturn(log[j], "connect")
                 ELSE log[i + 1] = RetEvent("connect", "s_conn", Ok(Client))
    /\ \A i \in DOMAIN log :
          IsConnectErr(log[i], "Authentication") =>
              /\ i > 1
              /\ IsSetupRead(log[i - 1], "s_conn", "ConnectResponse")
              /\ log[i - 1].res.val.invalid_password

\* connect() failed with Authentication.
C4_Witness ==
    \E i \in DOMAIN log : IsConnectErr(log[i], "Authentication")

(***************************************************************************)
(* C5                                                                      *)
(***************************************************************************)
\* The errors a frame decoder gives for the first byte of a frame.
PreambleErrors == {"UnexpectedPlain", "UnexpectedEncryption", "InvalidFrame"}

\* C5: when the buffered bytes start a frame whose preamble the decoder of
\* the connection rejects, the pending call returns that error: the client is
\* never found waiting for the socket with such bytes at the head of its
\* buffer.
C5_PreambleErrorReturned ==
    step = "r" =>
        LET d == decode(Cur, buffer)
        IN  ~(d.kind = "err" /\ d.err \in PreambleErrors)

(***************************************************************************)
(* C6                                                                      *)
(***************************************************************************)
IsUnknownType(payload) ==
    LET m == Message(payload) IN ~m.ok /\ m.err = "Unknown message type"

\* C6: every payload read_next_message hands to try_read whose type id
\* matches no variant makes that try_read return at once, to its caller, the
\* error ValidationFailed with the reason "Unknown message type": the frame is
\* neither skipped nor returned as a message.
C6_UnknownTypeReturned ==
    \A i \in DOMAIN log :
        log[i].ev = "read" /\ log[i].by \in ReadCtx /\ IsUnknownType(log[i].payload) =>
            /\ i < Len(log)
            /\ log[i + 1] = RetEvent("try_read", log[i].by,
                                     Err("ValidationFailed", "Unknown message type"))

\* The try_read of the owner read a frame of unknown type and returned.
C6_Witness ==
    \E i \in DOMAIN log :
        /\ log[i].ev = "read"
        /\ log[i].by = "try_read"
        /\ IsUnknownType(log[i].payload)
        /\ i < Len(log)
        /\ IsErrReturn(log[i + 1])

(***************************************************************************)
(* C7                                                                      *)
(***************************************************************************)
\* For every byte the write handles put on the socket, oldest first, the
\* write_message call (handle and call number) it belongs to.
RECURSIVE WireOwners(_)
WireOwners(events) ==
    IF events = <<>> THEN <<>>
    ELSE IF events[1].ev = "write" /\ events[1].by = "write_stream"
         THEN [i \in 1..events[1].n |-> <<events[1].h, events[1].call>>]
              \o WireOwners(Tail(events))
         ELSE WireOwners(Tail(events))

\* C7: whatever the handles do concurrently, the bytes of one write_message
\* call lie next to each other on the socket: between two bytes of one call
\* there is no byte of another call (a byte of a call that is not its last on
\* the socket is followed by a byte of the same call).
C7_FramesContiguous ==
    LET owner == WireOwners(log)
    IN  \A i \in DOMAIN owner : \A k \in DOMAIN owner :
            i < k /\ owner[i] = owner[k] => owner[i + 1] = owner[i]

\* Two handles were inside write_message at the same time and both frames
\* went out.
C7_Witness ==
    \E i \in DOMAIN log : \E j \in DOMAIN log :
        /\ i < j
        /\ log[i].by = "write_stream" /\ log[i].ev = "write"
        /\ log[j].by = "write_stream" /\ log[j].ev = "write"
        /\ log[j].h \in log[i].others

(***************************************************************************)
(* C8                                                                      *)
(***************************************************************************)
\* The send nonce a transport frame was encrypted under.
NonceOf(bytes) == noise_read_frame_from_buffer(bytes).frame[1]

\* C8: under Noise the frames of the write handles reach the socket in the
\* order of their send nonces, and no handle encrypts while another is
\* between its encrypt and its socket write.
C8_CiphertextInNonceOrder ==
    cfg.key = "valid" =>
        /\ \A i \in DOMAIN log : \A j \in DOMAIN log :
              /\ i < j
              /\ log[i].by = "write_stream" /\ log[i].ev = "write"
              /\ log[j].by = "write_stream" /\ log[j].ev = "write"
              => NonceOf(log[i].bytes) < NonceOf(log[j].bytes)
        /\ Cardinality({h \in DOMAIN writers : writers[h].pc = "w"}) <= 1

(***************************************************************************)
(* C9                                                                      *)
(***************************************************************************)
\* The payloads read_next_message returned, oldest first.
RECURSIVE ReadPayloads(_)
ReadPayloads(events) ==
    IF events = <<>> THEN <<>>
    ELSE IF events[1].ev = "read"
         THEN <<events[1].payload>> \o ReadPayloads(Tail(events))
         ELSE ReadPayloads(Tail(events))

\* reads are the payloads of the first Len(reads) frames of sent, frame by
\* frame.
RECURSIVE LeadingFrames(_, _)
LeadingFrames(reads, sent) ==
    \/ reads = <<>>
    \/ /\ sent # <<>>
       /\ sent[1].ok
       /\ sent[1].payload = reads[1]
       /\ LeadingFrames(Tail(reads), Tail(sent))

\* C9: the payloads read_next_message returned are those of the frames that
\* arrived, in the order of arrival, none skipped and none twice; and the
\* reader never waits for the socket while a complete frame is buffered.
C9_FramesInWireOrder ==
    /\ LeadingFrames(ReadPayloads(log), srv_log)
    /\ step = "r" => decode(Cur, buffer).kind # "some"

(***************************************************************************)
(* C10                                                                     *)
(***************************************************************************)
IsNoiseHelloWrite(e) == e.ev = "write" /\ e.by = "n_hello" /\ e.bytes = <<1, 0, 0>>
IsHandshakeWrite(e) ==
    /\ e.ev = "write"
    /\ e.by = "n_hs"
    /\ e.bytes = <<NOISE_PREAMBLE>> \o to_be_bytes(1 + Len(InitiatorMessage))
                 \o <<ZERO_BYTE>> \o InitiatorMessage
IsIdentityRead(e) == e.ev = "read" /\ e.by = "n_info"
IsResponderRead(e) == e.ev = "read" /\ e.by = "n_resp"

\* Both server frames of the handshake were read and accepted.
HandshakeAccepted ==
    /\ Len(log) >= 4
    /\ IsNoiseHelloWrite(log[1])
    /\ IsHandshakeWrite(log[2])
    /\ IsIdentityRead(log[3]) /\ log[3].payload[1] = NOISE_PREAMBLE
    /\ IsResponderRead(log[4]) /\ log[4].payload = <<ZERO_BYTE>> \o ResponderMessage

\* C10: with a key, what connect() does on the socket is, in this order: the
\* write of 01 00 00, the write of the handshake frame, the read of the
\* server identity frame, the read of the responder frame; each phase of the
\* handshake is entered with exactly the steps before it done; the transport
\* codec is on the reader and on the writer together, and only once both
\* server frames were accepted; every frame written or decoded outside the
\* handshake comes after that, the written ones as transport frames.
C10_HandshakeOrder ==
    cfg.key = "valid" =>
        /\ \A i \in DOMAIN log :
              \/ IsConnectErr(log[i], log[i].res.err) /\ log[i].by \in EnvelopeCtx
              \/ IsOkReturn(log[i], "connect") /\ HandshakeAccepted /\ i > 4
              \/ CASE i = 1 -> IsNoiseHelloWrite(log[i])
                   [] i = 2 -> IsHandshakeWrite(log[i])
                   [] i = 3 -> IsIdentityRead(log[i])
                   [] i = 4 -> IsResponderRead(log[i])
                   [] OTHER -> /\ HandshakeAccepted
                               /\ log[i].by \notin EnvelopeCtx
                               /\ log[i].ev = "write" => Carried(log[i].bytes) # <<>>
        /\ ctx = "n_hello" => Len(log) = 0 /\ pending = <<1, 0, 0>>
        /\ ctx = "n_hs" => Len(log) = 1
        /\ ctx = "n_info" => Len(log) = 2
        /\ ctx = "n_resp" => Len(log) = 3 /\ log[3].payload[1] = NOISE_PREAMBLE
        /\ IF hs = "transport"
           THEN HandshakeAccepted /\ decoder = "NoiseCoder" /\ encoder = "NoiseCoder"
           ELSE decoder # "NoiseCoder" /\ encoder # "NoiseCoder"

\* The handshake went through and the client wrote a frame behind it.
C10_Witness ==
    /\ cfg.key = "valid"
    /\ hs = "transport"
    /\ \E i \in DOMAIN log : i > 4 /\ log[i].ev = "write"

(***************************************************************************)
(* C11                                                                     *)
(***************************************************************************)
\* The key is base64 and decodes to exactly 32 bytes.
KeyAccepted(name) ==
    LET d == base64_decode(KeyString(name)) IN d.ok /\ Len(d.bytes) = 32

C12_EnvelopeByKey ==
    IF cfg.key = "none"
    THEN /\ hs = "none"
         /\ IF ctx \in {"init", "tcp"} \/ (ctx = "failed" /\ log[1].by \in {"init", "tcp"})
            THEN decoder = "NoopDecoder" /\ encoder = "NoopEncoder"
            ELSE decoder = "PlainDecoder" /\ encoder = "PlainEncoder"
         /\ \A i \in DOMAIN log :
               /\ log[i].by \notin HandshakeCtx
               /\ log[i].ev = "write" =>
                     /\ log[i].bytes[1] = PLAIN_PREAMBLE
                     /\ log[i].bytes # NOISE_HELLO
                     /\ plain_read_frame_from_buffer(log[i].bytes).kind = "some"
                     /\ plain_read_frame_from_buffer(log[i].bytes).rest = <<>>
    ELSE /\ decoder \in {"NoopDecoder", "PreHandshakeDecoder", "NoiseCoder"}
         /\ encoder \in {"NoopEncoder", "NoiseCoder"}
         /\ decoder = "NoiseCoder" <=> encoder = "NoiseCoder"
         /\ step \in {"r", "d"} => decoder \in {"PreHandshakeDecoder", "NoiseCoder"}
         /\ ctx \in ReadCtx \cup CallCtx \cup {"ready", "closed"} =>
               decoder = "NoiseCoder" /\ encoder = "NoiseCoder"
         /\ \A i \in DOMAIN log :
               log[i].ev = "write" =>
                   /\ log[i].bytes[1] = NOISE_PREAMBLE
                   /\ noise_read_frame_from_buffer(log[i].bytes).kind = "some"
                   /\ noise_read_frame_from_buffer(log[i].bytes).rest = <<>>
                   /\ log[i].by \notin HandshakeCtx =>
                         /\ i > 4
                         /\ Carried(log[i].bytes) # <<>>
         /\ \A i \in DOMAIN log :
               log[i].ev = "read" /\ log[i].by \notin HandshakeCtx => i > 4

\* A client with a key, handshake done, wrote a frame and read one.
C12_Witness ==
    /\ cfg.key # "none"
    /\ decoder = "NoiseCoder"
    /\ \E i \in DOMAIN log : log[i].ev = "write" /\ log[i].by = "try_write"
    /\ \E j \in DOMAIN log : log[j].ev = "read" /\ log[j].by = "try_read"

(***************************************************************************)
(* C13                                                                     *)
(***************************************************************************)
\* C13: connect() returns Timeout only when the timeout elapsed while it was
\* in the TCP connect or in the envelope handshake, never later; the error
\* carries the whole milliseconds of the configured timeout; it ends
\* connect(): it is the last event, the streams are dropped and no client
\* was returned.
C13_Timeout ==
    \A i \in DOMAIN log :
        log[i].ev = "ret" /\ ~log[i].res.ok /\ log[i].res.err = "Timeout" =>
            /\ log[i].op = "connect"
            /\ log[i].by \in EnvelopeCtx
            /\ \E q \in 0..999 :
                  /\ q * 1000000 <= cfg.timeout.nanos
                  /\ cfg.timeout.nanos < (q + 1) * 1000000
                  /\ log[i].res.timeout_ms = cfg.timeout.secs * 1000 + q
            /\ i = Len(log)
            /\ ctx = "failed"
            /\ buffer = <<>> /\ pending = <<>>
            /\ \A j \in DOMAIN log : ~IsOkReturn(log[j], "connect")

\* The timeout of two seconds and a millisecond and a half elapsed during the
\* Noise handshake.
C13_Witness ==
    /\ cfg.timeout = [secs |-> 2, nanos |-> 1500000]
    /\ Len(log) >= 1
    /\ log[Len(log)] = RetEvent("connect", "n_info", TimeoutErr(2001))

(***************************************************************************)
(* C14                                                                     *)
(***************************************************************************)
\* C14: without connection setup connect() returns the client as the next
\* thing after the envelope stands (after the TCP connect without a key,
\* after the responder frame with one); connection_setup never runs, so
\* neither a HelloRequest nor a ConnectRequest is written by connect() and
\* no application message is read by it; every application frame on the wire
\* and every application read comes after connect() returned and is made by
\* a call of the owner; and a HelloResponse the owner's try_read decodes is
\* returned by that try_read as the message it is.
C14_NoConnectionSetup ==
    ~cfg.connection_setup =>
        /\ ctx \notin SetupCtx
        /\ \A i \in DOMAIN log :
              /\ log[i].by \notin SetupCtx
              /\ IsOkReturn(log[i], "connect") =>
                    IF cfg.key = "none"
                    THEN i = 1 /\ log[i].by = "tcp"
                    ELSE i = 5 /\ log[i].by = "n_resp" /\ IsResponderRead(log[4])
              /\ log[i].ev \in {"read", "write"} /\ log[i].by \notin HandshakeCtx =>
                    /\ log[i].by \in CallCtx
                    /\ \E j \in 1..(i - 1) : IsOkReturn(log[j], "connect")
              /\ IsRead(log[i], "HelloResponse") =>
                    /\ i < Len(log)
                    /\ log[i + 1] = RetEvent("try_read", "try_read",
                                             Ok(Message(log[i].payload).msg))
                    /\ log[i + 1].res.val.variant = "HelloResponse"

\* The owner of a client connected without setup wrote the first application
\* frame itself and then got the server's HelloResponse from try_read.
C14_Witness ==
    /\ ~cfg.connection_setup
    /\ \E i \in DOMAIN log : \E j \in DOMAIN log :
          /\ i < j
          /\ IsWrite(log[i], "HelloRequest")
          /\ log[i].by = "try_write"
          /\ \A k \in 1..(i - 1) : log[k].ev = "write" => log[k].by \in HandshakeCtx
          /\ IsOkReturn(log[j], "try_read")
          /\ log[j].res.val.variant = "HelloResponse"

(***************************************************************************)
(* C15                                                                     *)
(***************************************************************************)
\* C15: a write made while try_read runs (in the owner's call, or inside one
\* of the loops of connection_setup behind the request that loop opened
\* with) is the write of a PingResponse, made with handle_ping on, directly
\* behind the read of a PingRequest by that try_read; with handle_ping off
\* try_read is never found writing, no PingResponse is ever written, and a
\* PingRequest read is returned at once to the caller as the message it is.
C15_TryReadWrites ==
    /\ step = "pong" =>
          /\ cfg.handle_ping
          /\ ctx \in ReadCtx
          /\ IsMessage(Carried(pending), "PingResponse")
    /\ \A i \in DOMAIN log :
          /\ log[i].ev = "write"
          /\ \/ log[i].by = "try_read"
             \/ log[i].by \in SetupCtx /\ \E j \in 1..(i - 1) : log[j].ev = "write" /\ log[j].by = log[i].by
          => /\ cfg.handle_ping
             /\ IsWrite(log[i], "PingResponse")
             /\ IsRead(log[i - 1], "PingRequest")
             /\ log[i - 1].by = log[i].by
    /\ ~cfg.handle_ping =>
          \A i \in DOMAIN log :
              /\ ~IsWrite(log[i], "PingResponse")
              /\ IsRead(log[i], "PingRequest") =>
                    /\ i < Len(log)
                    /\ log[i + 1] = RetEvent("try_read", log[i].by, Ok(PingRequest))

\* With handle_ping off the owner's try_read returned a PingRequest.
C15_Witness ==
    /\ ~cfg.handle_ping
    /\ \E i \in DOMAIN log :
          /\ i < Len(log)
          /\ IsRead(log[i], "PingRequest")
          /\ log[i].by = "try_read"
          /\ log[i + 1] = RetEvent("try_read", "try_read", Ok(PingRequest))

(***************************************************************************)
(* C16                                                                     *)
(***************************************************************************)
\* C16: the plaintext frame of a type id and a body, handed whole to the
\* plaintext frame reader, comes back as the two bytes of the type id, the
\* two bytes of the length of the body and the body, and the buffer is left
\* empty.
C16_PlainRoundTrip ==
    /\ unit.test = "plain"
    /\ unit.stage = "decoded"
    /\ Len(unit.buffer) = Len(unit.frame)
    => /\ unit.out.kind = "some"
       /\ unit.out.frame = <<unit.value \div 256, unit.value % 256,
                              Len(unit.body) \div 256, Len(unit.body) % 256>>
                            \o unit.body
       /\ unit.out.rest = <<>>

\* A frame whose length takes two bytes and whose type id takes three went
\* through.
C16_Witness ==
    /\ unit.test = "plain"
    /\ unit.stage = "decoded"
    /\ unit.value = 16384
    /\ Len(unit.body) = 128
    /\ unit.buffer = unit.frame
    /\ Len(unit.frame) = 1 + 2 + 3 + 128
    /\ unit.out.kind = "some"

(***************************************************************************)
(* C17                                                                     *)
(***************************************************************************)
\* C17: for every value of a u16 the LEB128 encoding is one byte up to 127,
\* two bytes up to 16383 and three bytes above, every byte but the last has
\* the continuation bit and the last has not; 127, 128, 16384 and 65535
\* encode as 7F, 80 01, 80 80 01 and FF FF 03; and decoding the encoding from
\* offset 0 gives the value and the length of the encoding.
C17_Leb128RoundTrip ==
    unit.test = "leb128" =>
        /\ unit.stage \in {"encoded", "decoded"} =>
              /\ Len(unit.frame) = (IF unit.value <= 127 THEN 1
                                    ELSE IF unit.value <= 16383 THEN 2 ELSE 3)
              /\ \A i \in 1..(Len(unit.frame) - 1) : unit.frame[i] >= 128
              /\ unit.frame[Len(unit.frame)] < 128
              /\ unit.value = 127 => unit.frame = <<127>>
              /\ unit.value = 128 => unit.frame = <<128, 1>>
              /\ unit.value = 16384 => unit.frame = <<128, 128, 1>>
              /\ unit.value = 65535 => unit.frame = <<255, 255, 3>>
        /\ unit.stage = "decoded" =>
              unit.out = [some |-> TRUE, value |-> unit.value, next |-> Len(unit.frame)]

\* The largest value went through its three bytes.
C17_Witness ==
    /\ unit.test = "leb128"
    /\ unit.stage = "decoded"
    /\ unit.value = 65535
    /\ Len(unit.frame) = 3
    /\ unit.out.some

(***************************************************************************)
(* C18                                                                     *)
(***************************************************************************)
\* C18: the plaintext frame reader, run on a buffer that holds less than the
\* whole of a plaintext frame, returns not-ready and leaves the buffer as it
\* was.
C18_PlainPrefixNotReady ==
    /\ unit.test = "plain"
    /\ unit.stage = "decoded"
    /\ Len(unit.buffer) < Len(unit.frame)
    => unit.out = [kind |-> "none", rest |-> unit.buffer]

\* The reader was run on three bytes that end inside the type id.
C18_Witness ==
    /\ unit.test = "plain"
    /\ unit.stage = "decoded"
    /\ unit.buffer = <<PLAIN_PREAMBLE, 0, 128>>
    /\ Len(unit.frame) = 5
    /\ unit.out.kind = "none"

(***************************************************************************)
(* C19                                                                     *)
(***************************************************************************)
\* C19: the Noise frame reader, run on a buffer that holds less than the
\* three bytes of the header and the len bytes behind it, returns not-ready
\* and leaves the buffer as it was.
C19_NoisePrefixNotReady ==
    /\ unit.test = "noise"
    /\ unit.stage = "decoded"
    /\ Len(unit.buffer) < Len(unit.frame)
    => unit.out = [kind |-> "none", rest |-> unit.buffer]

(***************************************************************************)
(* C20                                                                     *)
(***************************************************************************)
IsCloseReturn(e) == e.ev = "ret" /\ e.op = "close"

\* C20: close() hands one frame to the socket, the DisconnectRequest, and
\* reads nothing; its return is the next thing after that write and is Ok,
\* or, when the write failed, the write error with nothing written; with the
\* return the reader and the writer of the client are released (the socket
\* is closed, nothing is buffered or pending) and nothing happens on the
\* client afterwards.
C20_Close ==
    /\ ctx = "close" =>
          /\ step = "w"
          /\ IsMessage(Carried(pending), "DisconnectRequest")
          /\ \A i \in DOMAIN log : log[i].by # "close"
    /\ \A i \in DOMAIN log :
          log[i].by = "close" =>
              IF IsCloseReturn(log[i])
              THEN /\ i = Len(log)
                   /\ ctx = "closed"
                   /\ buffer = <<>> /\ pending = <<>> /\ net_in = <<>>
                   /\ IF log[i].res.ok
                      THEN /\ log[i].res = Ok(Unit)
                           /\ i > 1
                           /\ log[i - 1].ev = "write" /\ log[i - 1].by = "close"
                      ELSE /\ log[i].res = Err("Write", "")
                           /\ \A j \in DOMAIN log : j # i => log[j].by # "close"
              ELSE /\ IsWrite(log[i], "DisconnectRequest")
                   /\ i + 1 = Len(log)
                   /\ IsCloseReturn(log[i + 1])
    /\ ctx = "closed" => Len(log) >= 1 /\ IsCloseReturn(log[Len(log)])

\* A client that had read a message was closed: the DisconnectRequest went
\* out and close() returned Ok.
C20_Witness ==
    /\ ctx = "closed"
    /\ Len(log) >= 3
    /\ \E j \in DOMAIN log : IsOkReturn(log[j], "try_read")
    /\ IsWrite(log[Len(log) - 1], "DisconnectRequest")
    /\ log[Len(log)] = RetEvent("close", "close", Ok(Unit))


(***************************************************************************)
(* C21                                                                     *)
(***************************************************************************)
IsCallReturn(e) == e.ev = "ret" /\ e.by \in {"try_read", "try_write"}

\* C21: once a try_read or try_write of the client has returned an error,
\* every later try_read or try_write of it returns an error with the same
\* cause, and no later try_read delivers a message.
C21_FailedTerminal ==
    \A i \in DOMAIN log : \A j \in DOMAIN log :
        (i < j /\ IsCallReturn(log[i]) /\ ~log[i].res.ok /\ IsCallReturn(log[j])) =>
            /\ ~log[j].res.ok
            /\ log[j].res.err = log[i].res.err


(***************************************************************************)
(* C22                                                                     *)
(***************************************************************************)
IsPartialWrite(e) == e.ev = "write" /\ e.n < Len(e.bytes)

\* C22: write_message returns Ok only when every byte of the encoded frame
\* has been written.  After a socket write that took only part of the frame,
\* write_message is still writing the rest of it: the rest is what it hands
\* to the socket next, unless the write fails; it has not returned Ok.
C22_WholeFrameWritten ==
    \A i \in DOMAIN log :
        IsPartialWrite(log[i]) =>
            IF i = Len(log)
            THEN /\ ctx = log[i].by
                 /\ step \in {"w", "pong"}
                 /\ pending = SliceFrom(log[i].bytes, log[i].n)
            ELSE \/ /\ log[i + 1].ev = "write"
                    /\ log[i + 1].by = log[i].by
                    /\ log[i + 1].bytes = SliceFrom(log[i].bytes, log[i].n)
                 \/ IsErrReturn(log[i + 1])


(***************************************************************************)
(* C23                                                                     *)
(***************************************************************************)
AddressNotSet == Err("Configuration", "Address is not set")

\* C23: connect() on a builder without an address returns a Configuration
\* error and does nothing else: it never reaches the TCP connect, no
\* connection exists for the server to send on, no codec is installed and
\* nothing is written or read.
C23_AddressNotSet ==
    ~cfg.addr =>
        /\ ctx \in {"init", "failed"}
        /\ ctx = "init" => log = <<>>
        /\ ctx = "failed" => log = <<RetEvent("connect", "init", AddressNotSet)>>
        /\ ~Connected
        /\ net_in = <<>> /\ srv_log = <<>>
        /\ pending = <<>> /\ buffer = <<>>
        /\ decoder = "NoopDecoder" /\ encoder = "NoopEncoder"

\* connect() has returned on a builder without an address.
C23_Witness ==
    /\ ~cfg.addr
    /\ ctx = "failed"
    /\ \E i \in DOMAIN log : IsConnectErr(log[i], "Configuration")


(***************************************************************************)
(* C24                                                                     *)
(***************************************************************************)
Awaited(by) == IF by = "s_hello" THEN "HelloResponse" ELSE "ConnectResponse"

\* log[i] is the read, during setup, of a message setup does not wait for.
IsOtherVariantRead(i) ==
    /\ log[i].ev = "read"
    /\ log[i].by \in SetupCtx
    /\ Message(log[i].payload).ok
    /\ Message(log[i].payload).msg.variant # Awaited(log[i].by)

\* Behind log[i] setup waits on in the phase `by`: connect() is reading, or
\* has read the next frame, or its next read has failed.
SetupWaitsOn(i, by) ==
    IF i = Len(log)
    THEN ctx = "panicked" \/ (ctx = by /\ step = "r" /\ pending = <<>>)
    ELSE \/ log[i + 1].ev = "read" /\ log[i + 1].by = by
         \/ /\ IsErrReturn(log[i + 1])
            /\ log[i + 1].op = "try_read"
            /\ log[i + 1].res.err = "Read"

\* The message read at log[i] is handed to the loop of connection_setup and
\* dropped there: nothing is written and setup waits on.
Discarded(i) ==
    /\ i < Len(log)
    /\ log[i + 1] = RetEvent("try_read", log[i].by, Ok(Message(log[i].payload).msg))
    /\ SetupWaitsOn(i + 1, log[i].by)

\* The PingRequest read at log[i] is answered inside try_read: the
\* PingResponse is the one frame written, and setup waits on unless that write
\* fails.
AnsweredInSetup(i) ==
    IF i = Len(log)
    THEN /\ ctx = log[i].by
         /\ step = "pong"
         /\ IsMessage(Carried(pending), "PingResponse")
    ELSE \/ /\ IsWrite(log[i + 1], "PingResponse")
            /\ log[i + 1].by = log[i].by
            /\ SetupWaitsOn(i + 1, log[i].by)
         \/ /\ IsErrReturn(log[i + 1])
            /\ log[i + 1].op = "try_read"
            /\ log[i + 1].res.err = "Write"

IsAnsweredPing(i) ==
    cfg.handle_ping /\ Message(log[i].payload).msg.variant = "PingRequest"

\* C24 as stated: while connect() waits for HelloResponse (ConnectResponse),
\* every decoded message of another variant is discarded: nothing is written
\* and setup neither ends nor fails.
C24_OtherVariantsDiscarded ==
    \A i \in DOMAIN log : IsOtherVariantRead(i) => Discarded(i)

\* C24, amended: the same, except that a PingRequest read while handle_ping
\* is on is answered with one PingResponse before setup waits on.
C24_OtherVariantsDiscardedOrAnswered ==
    \A i \in DOMAIN log :
        IsOtherVariantRead(i) =>
            IF IsAnsweredPing(i) THEN AnsweredInSetup(i) ELSE Discarded(i)

\* Setup read a message other than the HelloResponse it waited for, dropped
\* it, and went on to the HelloResponse and the ConnectRequest.
C24_Witness ==
    \E i \in DOMAIN log :
        /\ IsOtherVariantRead(i)
        /\ ~IsAnsweredPing(i)
        /\ \E j \in DOMAIN log : j > i /\ IsWrite(log[j], "ConnectRequest")


(***************************************************************************)
(* C25                                                                     *)
(***************************************************************************)
\* C25: the connect timeout covers the whole phase before connect() returns
\* the client, the hello/connect exchange included: wherever connect() waits
\* in the connection setup, the timeout can elapse and end it with Timeout.
C25_TimeoutCoversSetup ==
    ctx \in SetupCtx => ENABLED ConnectTimeout


(***************************************************************************)
(* C26                                                                     *)
(***************************************************************************)
\* What may follow in the log and the state when the handshake goes on to
\* its second envelope behind log[i].
ReadsSecondEnvelope(i) ==
    IF i = Len(log) THEN ctx \in {"n_resp", "panicked"}
    ELSE \/ IsResponderRead(log[i + 1])
         \/ IsConnectErr(log[i + 1], "Timeout")
         \/ IsConnectErr(log[i + 1], "Read")

\* The payload of the first envelope is rejected with the error err.
IdentityRejectedWith(i, err) ==
    /\ i < Len(log)
    /\ IsConnectErr(log[i + 1], err)
    /\ log[i + 1].by = "n_info"

BeginsWith(payload, byte) == payload # <<>> /\ payload[1] = byte

\* C26: a first envelope of the Noise handshake whose payload does not begin
\* with 0x01 makes connect() fail with the NoiseHandshake connection error,
\* whatever the bytes behind it; one that begins with 0x01 is accepted
\* whatever the server name and MAC in it.
C26_IdentityOpeningByte ==
    \A i \in DOMAIN log :
        IsIdentityRead(log[i]) =>
            IF BeginsWith(log[i].payload, NOISE_PREAMBLE)
            THEN ReadsSecondEnvelope(i)
            ELSE IdentityRejectedWith(i, "NoiseHandshake")


(***************************************************************************)
(* C27                                                                     *)
(***************************************************************************)
\* The bytes behind the opening byte of a payload.
Rest(payload) == IF payload = <<>> THEN <<>> ELSE Tail(payload)

\* connect() failed on the second envelope, read at log[i], with the
\* NoiseHandshake connection error, and nothing happened after it.
ResponderRejected(i) ==
    /\ i + 1 = Len(log)
    /\ IsConnectErr(log[i + 1], "NoiseHandshake")
    /\ log[i + 1].by = "n_resp"
    /\ ctx = "failed"

\* The error for a wrong opening byte: "Incorrect preamble" and, when the
\* server sent a text that is UTF-8, the text.
CarriesText(res, payload) ==
    /\ res.reason = "Incorrect preamble"
    /\ (Rest(payload) # <<>> /\ from_utf8_ok(Rest(payload))) =>
           res.text = [kind |-> "text", str |-> Rest(payload)]

TransportInstalled == decoder = "NoiseCoder" \/ encoder = "NoiseCoder" \/ hs = "transport"

\* C27: a second envelope of the Noise handshake whose payload does not begin
\* with 0x00, or whose rest the Noise state rejects as the responder message,
\* makes connect() fail with the NoiseHandshake connection error; for a wrong
\* opening byte the reason is "Incorrect preamble" and carries the server's
\* text when that is decodable; the transport codec is not installed.
C27_ResponderRejected ==
    \A i \in DOMAIN log :
        (/\ IsResponderRead(log[i])
         /\ \/ ~BeginsWith(log[i].payload, ZERO_BYTE)
            \/ ~handshake_read_message("sent_e", Rest(log[i].payload))) =>
            /\ ResponderRejected(i)
            /\ ~BeginsWith(log[i].payload, ZERO_BYTE) =>
                   CarriesText(log[i + 1].res, log[i].payload)
            /\ ~TransportInstalled


(***************************************************************************)
(* C28                                                                     *)
(***************************************************************************)
\* The three bytes of the buffer from offset start on all have the
\* continuation bit: a varint of more than 16 bits of shift.
OverlongVarintAt(buf, start) ==
    /\ Len(buf) >= start + 3
    /\ \A i \in (start + 1)..(start + 3) : buf[i] >= 128

\* The plaintext buffer holds a length, or behind a whole length a type id,
\* whose third byte has the continuation bit.
HasOverlongVarint(buf) ==
    /\ buf # <<>>
    /\ buf[1] = PLAIN_PREAMBLE
    /\ \/ OverlongVarintAt(buf, 1)
       \/ \E n \in 1..3 :
             /\ Len(buf) >= 1 + n
             /\ \A i \in 2..n : buf[i] >= 128
             /\ buf[1 + n] < 128
             /\ OverlongVarintAt(buf, 1 + n)

\* C28: the plaintext frame reader rejects a frame whose length or type id
\* has the continuation bit on its third byte with InvalidFrame; it does not
\* take it for a frame that has not arrived whole.
C28_OverlongVarintRejected ==
    (/\ unit.test = "plain_raw"
     /\ unit.stage = "decoded"
     /\ HasOverlongVarint(unit.buffer)) =>
        /\ unit.out.kind = "err"
        /\ unit.out.err = "InvalidFrame"

(***************************************************************************)
(* C29                                                                     *)
(***************************************************************************)
\* The value a LEB128 length of three bytes at the head of the frame denotes.
DenotedLength(buf) == (buf[2] % 128) + (buf[3] % 128) * 128 + buf[4] * 16384

HasTooLargeLength(buf) ==
    /\ Len(buf) >= 4
    /\ buf[1] = PLAIN_PREAMBLE
    /\ buf[2] >= 128 /\ buf[3] >= 128 /\ buf[4] < 128
    /\ DenotedLength(buf) >= U16_MODULUS

\* C29: the plaintext frame reader rejects a frame whose length does not fit
\* in 16 bits with FrameTooLarge; it never returns a frame for it.
C29_FrameTooLarge ==
    (/\ unit.test = "plain_raw"
     /\ unit.stage = "decoded"
     /\ unit.buffer = unit.frame
     /\ HasTooLargeLength(unit.buffer)) =>
        /\ unit.out.kind = "err"
        /\ unit.out.err = "FrameTooLarge"


(***************************************************************************)
(* C30                                                                     *)
(***************************************************************************)
\* The LEB128 bytes of a 16-bit value, written out.
Leb128Bytes(v) ==
    IF v < 128 THEN <<v>>
    ELSE IF v < 16384 THEN <<128 + (v % 128), v \div 128>>
    ELSE <<128 + (v % 128), 128 + ((v \div 128) % 128), v \div 16384>>

\* C30: the plaintext encoder fails with InvalidFrame, reason "Payload must
\* be at least 4 bytes long", and no frame, for every payload of fewer than 4
\* bytes; for every other payload it returns the byte 0x00, the LEB128 of
\* the value in bytes 2..3, the LEB128 of the value in bytes 0..1, and the
\* bytes behind the first four.
C30_PlainEncode ==
    (unit.test = "plain_encode" /\ unit.stage = "encoded") =>
        IF Len(unit.body) < 4
        THEN unit.out = [kind |-> "err", err |-> "InvalidFrame",
                         reason |-> "Payload must be at least 4 bytes long"]
        ELSE /\ unit.out.kind = "ok"
             /\ unit.out.frame =
                    <<0>> \o Leb128Bytes(unit.body[3] * 256 + unit.body[4])
                          \o Leb128Bytes(unit.body[1] * 256 + unit.body[2])
                          \o SubSeq(unit.body, 5, Len(unit.body))

\* The encoder refused a payload of three bytes.
C30_Witness ==
    /\ unit.test = "plain_encode"
    /\ unit.stage = "encoded"
    /\ unit.body = <<0, 1, 200>>
    /\ unit.out.kind = "err"


(***************************************************************************)
(* C31                                                                     *)
(***************************************************************************)
\* The error a frame reader owes a buffer whose first byte is not the
\* preamble of its envelope.
PreambleError(test, byte) ==
    IF test = "plain_raw" /\ byte = NOISE_PREAMBLE THEN "UnexpectedEncryption"
    ELSE IF test = "noise_raw" /\ byte = PLAIN_PREAMBLE THEN "UnexpectedPlain"
    ELSE "InvalidFrame"

\* A frame reader was run on a buffer that opens with a foreign byte.
OnForeignPreamble ==
    /\ unit.test \in {"plain_raw", "noise_raw"}
    /\ unit.stage = "decoded"
    /\ unit.buffer # <<>>
    /\ unit.buffer[1] # (IF unit.test = "plain_raw" THEN PLAIN_PREAMBLE ELSE NOISE_PREAMBLE)

RejectedUnconsumed ==
    unit.out = [kind |-> "err", err |-> PreambleError(unit.test, unit.buffer[1]),
                rest |-> unit.buffer]

\* C31 as stated: on every buffer whose first byte is 0x01 the plaintext
\* reader fails with UnexpectedEncryption, on every buffer whose first byte
\* is 0x00 the Noise reader fails with UnexpectedPlain, on any other foreign
\* first byte either fails with InvalidFrame; the buffer is left as it was.
C31_ForeignPreambleRejected ==
    OnForeignPreamble => RejectedUnconsumed

\* C31, amended: the same for every buffer of at least three bytes.
C31_ForeignPreambleRejectedFromThreeBytes ==
    (OnForeignPreamble /\ Len(unit.buffer) >= 3) => RejectedUnconsumed

\* The Noise reader was run on a whole plaintext frame.
C31_Witness ==
    /\ unit.test = "noise_raw"
    /\ unit.stage = "decoded"
    /\ unit.buffer = <<PLAIN_PREAMBLE, 1, 1, 9>>
    /\ unit.out.kind = "err"


(***************************************************************************)
(* C32                                                                     *)
(***************************************************************************)
\* The payload framed in a unit of the Noise codec.
UnitPayload ==
    <<unit.value \div 256, unit.value % 256, Len(unit.body) \div 256, Len(unit.body) % 256>>
    \o unit.body

\* C32: the Noise frame of a payload is the byte 0x01, the length of the
\* payload in two bytes, high byte first, and the payload; the Noise frame
\* reader, run on a buffer that holds the frame, returns the payload and
\* takes the 3 + len bytes of the frame out of the buffer, leaving what
\* follows.
C32_NoiseRoundTrip ==
    unit.test = "noise" =>
        /\ unit.stage # "input" =>
              /\ Len(unit.frame) = 3 + Len(UnitPayload)
              /\ unit.frame[1] = 1
              /\ unit.frame[2] * 256 + unit.frame[3] = Len(UnitPayload)
              /\ unit.frame[2] < 256 /\ unit.frame[3] < 256
              /\ SubSeq(unit.frame, 4, Len(unit.frame)) = UnitPayload
        /\ (unit.stage = "decoded" /\ Len(unit.buffer) >= Len(unit.frame)) =>
              /\ unit.out.kind = "some"
              /\ unit.out.frame = UnitPayload
              /\ unit.out.rest = SubSeq(unit.buffer, Len(unit.frame) + 1, Len(unit.buffer))

\* The frame of a payload whose length takes both bytes was read back with
\* the start of a next frame behind it.
C32_Witness ==
    /\ unit.test = "noise"
    /\ unit.stage = "decoded"
    /\ Len(UnitPayload) = 4 + 128
    /\ unit.value = 16384
    /\ Len(unit.buffer) = Len(unit.frame) + 3
    /\ unit.out.kind = "some"
    /\ Len(unit.out.rest) = 3


(***************************************************************************)
(* C33                                                                     *)
(***************************************************************************)
\* The transport frames encrypted so far and not lost to a write error:
\* those handed to the socket behind the handshake, those a handle still
\* holds, and the PingResponse the reader is about to write.
TransportFrames ==
    {log[i].bytes : i \in {k \in DOMAIN log : k > Len(ConnectedLog(cfg.key))
                                               /\ log[k].ev = "write"}}
    \cup {writers[h].frame : h \in {g \in DOMAIN writers : writers[g].pc = "w"}}
    \cup (IF step = "pong" THEN {pending} ELSE {})

\* How many events of the log satisfy: a write of the reader's PingResponse;
\* a payload returned to try_read.
RECURSIVE PongWrites(_)
PongWrites(events) ==
    IF events = <<>> THEN 0
    ELSE (IF events[1].ev = "write" /\ events[1].by = "try_read" THEN 1 ELSE 0)
         + PongWrites(Tail(events))

RECURSIVE Decrypted(_)
Decrypted(events) ==
    IF events = <<>> THEN <<>>
    ELSE (IF events[1].ev = "read" /\ events[1].by = "try_read"
          THEN <<events[1].payload>> ELSE <<>>)
         \o Decrypted(Tail(events))

\* The payloads the server encrypted, in the order of its send nonces.
RECURSIVE ServerEncrypted(_)
ServerEncrypted(sent) ==
    IF sent = <<>> THEN <<>>
    ELSE (IF sent[1].ok THEN <<sent[1].payload>> ELSE <<>>)
         \o ServerEncrypted(Tail(sent))

\* C33: behind the handshake the reader and all write handles work on one
\* Noise session.  Every encrypt, whichever handle makes it, takes the next
\* send nonce: the send nonce counts the encrypts, and no two frames carry
\* the same nonce.  Every decrypt takes the next receive nonce: the receive
\* nonce counts the payloads decrypted, and these are the payloads the
\* server encrypted, in its nonce order.
C33_OneSession ==
    /\ n_send = HandleWrites(MaxHandles) + PongWrites(log)
                + (IF step = "pong" THEN 1 ELSE 0)
    /\ \A f \in TransportFrames : NonceOf(f) < n_send
    /\ \A f \in TransportFrames : \A g \in TransportFrames :
          NonceOf(f) = NonceOf(g) => f = g
    /\ n_recv = Len(Decrypted(log))
    /\ LET sent == SliceFrom(ServerEncrypted(srv_log), 2)
       IN  /\ Len(Decrypted(log)) <= Len(sent)
           /\ Decrypted(log) = Take(sent, Len(Decrypted(log)))

\* Two handles and the reader's PingResponse each took a send nonce, and the
\* reader decrypted two frames.
C33_Witness ==
    /\ n_send = 3
    /\ n_recv = 2
    /\ PongWrites(log) = 1
    /\ \E h \in Handles : \E g \in Handles : h # g /\ writers[h].calls > 0 /\ writers[g].calls > 0

(***************************************************************************)
(* C34                                                                     *)
(***************************************************************************)

\* The step is a socket read that returned zero bytes.
IsZeroRead == srv_log' = Append(srv_log, PeerClosed)

\* C34: when the server has closed the connection and no whole frame is
\* buffered, a socket read of zero bytes leaves read_next_message waiting:
\* the call it serves is still running and still waits for the socket, it
\* has returned neither a payload nor an error, and the buffer, the decoder
\* and the phase of the client are as they were.
C34_ZeroReadKeepsWaiting ==
    [][IsZeroRead =>
          /\ step' = "r"
          /\ ctx' = ctx
          /\ log' = log
          /\ buffer' = buffer
          /\ decoder' = decoder
          /\ encoder' = encoder
          /\ hs' = hs
          /\ pending' = pending]_vars

\* try_read waits on a closed connection with a part of a frame buffered.
C34_Witness ==
    /\ srv_log # <<>>
    /\ srv_log[Len(srv_log)] = PeerClosed
    /\ ctx = "try_read"
    /\ step = "r"
    /\ buffer # <<>>

(***************************************************************************)
(* C35                                                                     *)
(***************************************************************************)

\* The payload of the message carries the variant's type id and the length
\* of the body in its first four bytes.
HeaderCarriesTypeAndLength ==
    /\ Len(unit.frame) >= 4
    /\ Take(unit.frame, 2) = to_be_bytes(get_message_type(unit.msg.variant))
    /\ from_be_bytes(unit.frame[3], unit.frame[4]) = Len(unit.frame) - 4

DistinctTypeIds ==
    \A v \in Variants : \A w \in Variants :
        v # w => get_message_type(v) # get_message_type(w)

\* C35: a message of any variant, encoded through the registry and decoded
\* again, comes back as the same variant.  The encoded header carries the
\* variant's type id and the body length, distinct variants have distinct
\* type ids, and the result of decoding is the same whatever the inner
\* length bytes are.
C35_RegistryRoundTrip ==
    /\ DistinctTypeIds
    /\ (unit.test = "registry" /\ unit.stage # "input") => HeaderCarriesTypeAndLength
    /\ (unit.test = "registry" /\ unit.stage = "decoded") =>
          /\ unit.out.ok
          /\ unit.out.msg.variant = unit.msg.variant
          /\ unit.out = message_try_from(unit.frame)

\* A PingResponse decoded from a payload whose inner length bytes say 65535.
C35_Witness ==
    /\ unit.test = "registry"
    /\ unit.stage = "decoded"
    /\ unit.msg.variant = "PingResponse"
    /\ unit.buffer = <<0, 8, 255, 255>>
    /\ unit.out.ok

(***************************************************************************)
(* C36                                                                     *)
(***************************************************************************)

\* The PingRequests read, and the PingResponses written, in a phase of setup.
PingsReadIn(by) ==
    {i \in DOMAIN log : IsRead(log[i], "PingRequest") /\ log[i].by = by}
PongsWrittenIn(by) ==
    {j \in DOMAIN log : IsWrite(log[j], "PingResponse") /\ log[j].by = by}

\* C36: a PingRequest that connection setup reads while it waits for the
\* HelloResponse or the ConnectResponse is, with handle_ping on, answered
\* with exactly one PingResponse (one write of it per PingRequest read, made
\* at once and not handed to the setup loop) and setup waits on in the phase
\* it was in, unless that write fails; with handle_ping off it is handed to
\* the setup loop and dropped there, and no PingResponse is ever written.
C36_PingDuringSetup ==
    \A by \in SetupCtx :
        IF cfg.handle_ping
        THEN /\ \A i \in PingsReadIn(by) : AnsweredInSetup(i)
             /\ Cardinality(PongsWrittenIn(by)) <= Cardinality(PingsReadIn(by))
             /\ Cardinality(PongsWrittenIn(by)) >= Cardinality(PingsReadIn(by)) - 1
             /\ \A j \in PongsWrittenIn(by) : j - 1 \in PingsReadIn(by)
        ELSE /\ \A i \in PingsReadIn(by) : Discarded(i)
             /\ PongsWrittenIn(by) = {}

\* Setup, waiting for the ConnectResponse, has answered a PingRequest and
\* waits on for the ConnectResponse.
C36_Witness ==
    /\ cfg.handle_ping
    /\ ctx = "s_conn"
    /\ step = "r"
    /\ \E i \in PingsReadIn("s_conn") :
          /\ i + 1 = Len(log)
          /\ IsWrite(log[i + 1], "PingResponse")

(***************************************************************************)
(* C37                                                                     *)
(***************************************************************************)

\* The step ends the Noise handshake: the transport decoder replaces the
\* pre-handshake decoder.
IsTransportInstall == decoder = "PreHandshakeDecoder" /\ decoder' = "NoiseCoder"

\* The bytes the step takes off the socket.
Arrived == Take(net_in, Len(net_in) - Len(net_in'))

\* What is left of the bytes `all` behind the handshake frames still to be
\* read: the responder frame, behind the identity frame if that one is still
\* to be read as well.
BehindResponder(all) ==
    LET first == noise_read_frame_from_buffer(all)
    IN  IF ctx = "n_info" THEN noise_read_frame_from_buffer(first.rest).rest
        ELSE first.rest

\* The transport decoder is installed, has decoded nothing yet, and the
\* buffer holds a whole frame of the server's first transport message.
FirstFrameBuffered ==
    /\ decoder = "NoiseCoder"
    /\ n_recv = 0
    /\ decode(Cur, buffer).kind = "some"

\* The read events the step adds to the log.
NewReads == {k \in (Len(log) + 1)..Len(log') : log'[k].ev = "read"}

\* C37: the bytes the reader holds behind the responder handshake frame when
\* the handshake ends are still in its buffer once the transport decoder is
\* installed.  When they hold the server's first transport frame, the first
\* read_next_message after that returns it without reading from the socket:
\* from the end of the handshake on the client does not wait for the socket
\* while that frame is buffered, and the step in which the frame is decoded
\* takes nothing off the socket.
C37_BufferKeptAcrossHandshake ==
    [][/\ IsTransportInstall =>
             /\ buffer' = BehindResponder(buffer \o Arrived)
             /\ FirstFrameBuffered' => step' # "r"
       /\ (FirstFrameBuffered /\ step # "r" /\ FirstFrameBuffered') => step' # "r"
       /\ (FirstFrameBuffered /\ step # "r" /\ n_recv' > 0) =>
             /\ net_in' = net_in
             /\ NewReads # {}
             /\ \A k \in NewReads :
                   (\A j \in NewReads : k <= j) =>
                       log'[k].payload = decode(Cur, buffer).frame]_vars

\* The handshake has ended with the server's first transport frame, a
\* PingRequest, already in the buffer.
C37_Witness ==
    /\ FirstFrameBuffered
    /\ hs = "transport"
    /\ IsMessage(decode(Cur, buffer).frame, "PingRequest")

(***************************************************************************)
(* C38                                                                     *)
(***************************************************************************)

\* What read_next_message returns for each payload when its frame arrives
\* whole, in one read, on an empty buffer.
WholeReads(payloads) ==
    [i \in 1..Len(payloads) |->
        read_buffered(create_frame(payloads[i]).frame).seq[1]]

\* How many of the frames lie wholly within the first n bytes of the stream.
RECURSIVE FramesArrived(_, _)
FramesArrived(payloads, n) ==
    IF payloads = <<>> \/ Len(create_frame(payloads[1]).frame) > n THEN 0
    ELSE 1 + FramesArrived(Tail(payloads), n - Len(create_frame(payloads[1]).frame))

\* C38: however the bytes of a sequence of well-formed plaintext frames are
\* split into socket reads, the payloads read_next_message has returned are
\* the ones it returns when every frame arrives whole in a read of its own,
\* in the same order: after any number of reads they are those of the frames
\* that have arrived in full, and after the last read all of them, with
\* nothing left in the buffer.
C38_SplitReadsSamePayloads ==
    unit.test = "stream" =>
        /\ unit.out.seq = Take(WholeReads(unit.msg.payloads),
                               FramesArrived(unit.msg.payloads, unit.value))
        /\ unit.value = Len(unit.frame) =>
              /\ unit.out.seq = WholeReads(unit.msg.payloads)
              /\ unit.buffer = <<>>

\* A stream of two frames with three-byte type ids, the first with a
\* two-byte length, has been read to its end and both payloads returned.
C38_Witness ==
    /\ unit.test = "stream"
    /\ unit.value = Len(unit.frame)
    /\ Len(unit.out.seq) = 2
    /\ unit.msg.payloads[1] = canonical_payload(16384, <<>> \o Repeat(7, 128))
    /\ unit.msg.payloads[2] = canonical_payload(16384, <<200>>)

(***************************************************************************)
(* C39                                                                     *)
(***************************************************************************)

\* The builder has an address and a key that create_noise_client refuses.
KeyFailsValidation ==
    /\ cfg.addr
    /\ cfg.key # "none"
    /\ ~create_noise_client(KeyString(cfg.key)).ok

\* C39: with a key that fails validation connect() fails, and it fails with
\* InvalidKey only in the TCP phase, when the connection has been opened, not
\* before; nothing is ever written or about to be written: not the noise
\* hello, not a handshake frame, nor anything else.  (connect() can also
\* fail in the TCP phase because the connection cannot be opened or the
\* timeout elapses; nothing is written then either.)
C39_InvalidKeyNothingWritten ==
    KeyFailsValidation =>
        /\ ctx \in {"init", "tcp", "failed"}
        /\ ctx \in {"init", "tcp"} => log = <<>>
        /\ ctx = "failed" =>
              /\ Len(log) = 1
              /\ log[1].ev = "ret" /\ log[1].op = "connect" /\ log[1].by = "tcp"
              /\ ~log[1].res.ok
              /\ log[1].res.err \in {"InvalidKey", "TcpConnect", "Timeout"}
        /\ \A i \in DOMAIN log : log[i].ev # "write"
        /\ pending = <<>>
        /\ hs # "transport" /\ encoder # "NoiseCoder"

\* connect() with a key of 30 bytes has failed behind the TCP connect.
C39_Witness ==
    /\ cfg.key = "short"
    /\ ctx = "failed"
    /\ log = <<RetEvent("connect", "tcp", Err("InvalidKey", "Invalid PSK length"))>>

====
